---- MODULE Spec2Model ----
(***************************************************************************)
(* A model of go-dkci: the configuration resolver (package config), the    *)
(* local export, delete and import flows (package docker) and the cloud    *)
(* flows (package cloud).  Strings are TLA+ strings and the Go string      *)
(* functions are computed character by character.                          *)
(***************************************************************************)
EXTENDS Integers, Sequences, FiniteSets, TLC

(***************************************************************************)
(* Bounds of the model.                                                    *)
(***************************************************************************)
MaxRepoTags == 2    \* repo tags in the daemon's image list
MaxFiles == 3       \* entries in a directory listing (local or cloud)
MaxSelected == 2    \* options the user ticks at a prompt

(***************************************************************************)
(* Go string functions.                                                    *)
(***************************************************************************)
RECURSIVE Concat(_)
Concat(ss) == IF Len(ss) = 0 THEN "" ELSE Head(ss) \o Concat(Tail(ss))

\* strings.Contains(s, substr)
Contains(s, substr) ==
    \E i \in 0..(Len(s) - Len(substr)) : SubSeq(s, i + 1, i + Len(substr)) = substr

\* strings.HasSuffix(s, suffix)
HasSuffix(s, suffix) ==
    /\ Len(s) >= Len(suffix)
    /\ SubSeq(s, Len(s) - Len(suffix) + 1, Len(s)) = suffix

\* strings.HasPrefix(s, prefix)
HasPrefix(s, prefix) ==
    /\ Len(s) >= Len(prefix)
    /\ SubSeq(s, 1, Len(prefix)) = prefix

\* strings.TrimSuffix(s, suffix)
TrimSuffix(s, suffix) ==
    IF HasSuffix(s, suffix) THEN SubSeq(s, 1, Len(s) - Len(suffix)) ELSE s

\* index of the first occurrence of the one-character string c in s, 0 if none
RECURSIVE IndexFrom(_, _, _)
IndexFrom(s, c, i) ==
    IF i > Len(s) THEN 0
    ELSE IF SubSeq(s, i, i) = c THEN i
    ELSE IndexFrom(s, c, i + 1)

Index(s, c) == IndexFrom(s, c, 1)

\* index of the last occurrence of the one-character string c in s, 0 if none
RECURSIVE LastIndexFrom(_, _, _)
LastIndexFrom(s, c, i) ==
    IF i < 1 THEN 0
    ELSE IF SubSeq(s, i, i) = c THEN i
    ELSE LastIndexFrom(s, c, i - 1)

LastIndex(s, c) == LastIndexFrom(s, c, Len(s))

\* strings.Split(s, sep) for a one-character separator
RECURSIVE Split(_, _)
Split(s, sep) ==
    LET i == Index(s, sep)
    IN  IF i = 0 THEN <<s>>
        ELSE <<SubSeq(s, 1, i - 1)>> \o Split(SubSeq(s, i + 1, Len(s)), sep)

\* strings.ReplaceAll(s, old, new) for a one-character old
ReplaceAll(s, old, new) ==
    Concat([i \in 1..Len(s) |-> IF SubSeq(s, i, i) = old THEN new ELSE SubSeq(s, i, i)])

\* strings.Join(elems, sep)
RECURSIVE Join(_, _)
Join(elems, sep) ==
    IF Len(elems) = 0 THEN ""
    ELSE IF Len(elems) = 1 THEN elems[1]
    ELSE elems[1] \o sep \o Join(Tail(elems), sep)

Upper == "ABCDEFGHIJKLMNOPQRSTUVWXYZ"
Lower == "abcdefghijklmnopqrstuvwxyz"

\* strings.ToLower(s)
ToLower(s) ==
    Concat([i \in 1..Len(s) |->
              LET k == Index(Upper, SubSeq(s, i, i))
              IN  IF k = 0 THEN SubSeq(s, i, i) ELSE SubSeq(Lower, k, k)])

\* filepath.Base(path) for a non-empty path with no trailing separator
Base(path) == SubSeq(path, LastIndex(path, "/") + 1, Len(path))

\* filepath.Ext(path): the suffix beginning at the final dot of the last element
Ext(path) ==
    LET b == Base(path)
        i == LastIndex(b, ".")
    IN  IF i = 0 THEN "" ELSE SubSeq(b, i, Len(b))

\* filepath.Join(dir, name) for clean operands
PathJoin(dir, name) == IF HasSuffix(dir, "/") THEN dir \o name ELSE dir \o "/" \o name

\* the subsequences of a sequence, as the sequences of the kept positions
RECURSIVE Pick(_, _, _)
Pick(s, keep, i) ==
    IF i > Len(s) THEN <<>>
    ELSE IF i \in keep THEN <<s[i]>> \o Pick(s, keep, i + 1)
    ELSE Pick(s, keep, i + 1)

SubSeqs(s) == {Pick(s, keep, 1) : keep \in SUBSET (1..Len(s))}

Range(s) == {s[i] : i \in 1..Len(s)}

(***************************************************************************)
(* config/config.go                                                        *)
(***************************************************************************)
\* a nil pointer is the empty sequence and a pointer to v is <<v>>
Nil == <<>>
Ptr(v) == <<v>>

\* the program's view of one file of the file system that may hold the settings
ConfigTables ==
    { [client_id |-> "fid", client_secret |-> "fsec", token_path |-> "/ftok", default_cloud_dir |-> "/fdir"],
      [client_id |-> "fid", client_secret |-> "fsec", token_path |-> "/ftok", default_cloud_dir |-> ""],
      [client_id |-> "fid", client_secret |-> "", token_path |-> "/ftok", default_cloud_dir |-> "/fdir"],
      [client_id |-> "", client_secret |-> "", token_path |-> "", default_cloud_dir |-> ""] }

ConfigFileStates == [readable : BOOLEAN, wellformed : BOOLEAN, table : ConfigTables]

CustomConfigPath == "/etc/dkci.toml"
HomeDir == "/home/u"

\* filepath.Join(homeDir, ".local", "app", "dkci", "config.toml")
DefaultConfigPath(homeDir) ==
    PathJoin(PathJoin(PathJoin(PathJoin(homeDir, ".local"), "app"), "dkci"), "config.toml")

ConfigPaths == {CustomConfigPath, DefaultConfigPath(HomeDir)}

\* the result of GetBDFSConfig: the pointer to the record (or Nil), the error
\* kind ("" for none) and the files that were read on the way
ConfigResult(cfg, err, reads) == [config |-> cfg, err |-> err, reads |-> reads]

\* the settings file branch without the "/" default
GetBDFSConfigFromFileNoDefault(configFilePath, disk) ==
    LET file == disk[configFilePath]
        parsed == [ClientID |-> file.table.client_id,
                   ClientSecret |-> file.table.client_secret,
                   TokenPath |-> file.table.token_path,
                   DefaultCloudDir |-> file.table.default_cloud_dir]
    IN  IF ~file.readable
        THEN ConfigResult(Nil, "read", <<configFilePath>>)
        ELSE IF ~file.wellformed
        THEN ConfigResult(Nil, "parse", <<configFilePath>>)
        ELSE IF parsed.ClientID = "" \/ parsed.ClientSecret = "" \/ parsed.TokenPath = ""
        THEN ConfigResult(Nil, "missing", <<configFilePath>>)
        ELSE ConfigResult(Ptr(parsed), "", <<configFilePath>>)

\* the settings file branch with the required fields tested before the parse
\* error
GetBDFSConfigFromFileFieldsFirst(configFilePath, disk) ==
    LET file == disk[configFilePath]
        parsed == [ClientID |-> file.table.client_id,
                   ClientSecret |-> file.table.client_secret,
                   TokenPath |-> file.table.token_path,
                   DefaultCloudDir |-> file.table.default_cloud_dir]
    IN  IF ~file.readable
        THEN ConfigResult(Nil, "read", <<configFilePath>>)
        ELSE IF parsed.ClientID = "" \/ parsed.ClientSecret = "" \/ parsed.TokenPath = ""
        THEN ConfigResult(Nil, "missing", <<configFilePath>>)
        ELSE IF ~file.wellformed
        THEN ConfigResult(Nil, "parse", <<configFilePath>>)
        ELSE ConfigResult(Ptr([parsed EXCEPT !.DefaultCloudDir =
                                 IF parsed.DefaultCloudDir = "" THEN "/"
                                 ELSE parsed.DefaultCloudDir]),
                          "", <<configFilePath>>)

\* lines 54-74: the settings file branch
GetBDFSConfigFromFile(configFilePath, disk) ==
    LET file == disk[configFilePath]
        parsed == [ClientID |-> file.table.client_id,
                   ClientSecret |-> file.table.client_secret,
                   TokenPath |-> file.table.token_path,
                   DefaultCloudDir |-> file.table.default_cloud_dir]
    IN  IF ~file.readable
        THEN ConfigResult(Nil, "read", <<configFilePath>>)
        ELSE IF ~file.wellformed
        THEN ConfigResult(Nil, "parse", <<configFilePath>>)
        ELSE IF parsed.ClientID = "" \/ parsed.ClientSecret = "" \/ parsed.TokenPath = ""
        THEN ConfigResult(Nil, "missing", <<configFilePath>>)
        ELSE ConfigResult(Ptr([parsed EXCEPT !.DefaultCloudDir =
                                 IF parsed.DefaultCloudDir = "" THEN "/"
                                 ELSE parsed.DefaultCloudDir]),
                          "", <<configFilePath>>)

\* GetBDFSConfig() with the variables that are set laid over the settings file
GetBDFSConfigMerged(env, disk) ==
    LET path == IF env.BDFS_CONFIG_FILE # "" THEN env.BDFS_CONFIG_FILE
                ELSE DefaultConfigPath(env.HOME)
        fromFile == GetBDFSConfigFromFile(path, disk)
        over(value, field) == IF value # "" THEN value ELSE field
    IN  IF env.BDFS_CLIENT_ID # "" /\ env.BDFS_CLIENT_SECRET # "" /\ env.BDFS_TOKEN_PATH # ""
        THEN ConfigResult(Ptr([ClientID |-> env.BDFS_CLIENT_ID,
                               ClientSecret |-> env.BDFS_CLIENT_SECRET,
                               TokenPath |-> env.BDFS_TOKEN_PATH,
                               DefaultCloudDir |-> IF env.BDFS_DEFAULT_CLOUD_DIR = "" THEN "/"
                                                   ELSE env.BDFS_DEFAULT_CLOUD_DIR]),
                          "", <<>>)
        ELSE IF env.BDFS_CONFIG_FILE = "" /\ env.HOME = ""
        THEN ConfigResult(Nil, "home", <<>>)
        ELSE IF fromFile.err # "" THEN fromFile
        ELSE ConfigResult(Ptr([ClientID |-> over(env.BDFS_CLIENT_ID, fromFile.config[1].ClientID),
                               ClientSecret |-> over(env.BDFS_CLIENT_SECRET,
                                                     fromFile.config[1].ClientSecret),
                               TokenPath |-> over(env.BDFS_TOKEN_PATH,
                                                  fromFile.config[1].TokenPath),
                               DefaultCloudDir |-> over(env.BDFS_DEFAULT_CLOUD_DIR,
                                                        fromFile.config[1].DefaultCloudDir)]),
                          "", fromFile.reads)

\* GetBDFSConfig() with BDFS_CONFIG_FILE consulted before the three variables
GetBDFSConfigFileFirst(env, disk) ==
    IF env.BDFS_CONFIG_FILE # ""
    THEN GetBDFSConfigFromFile(env.BDFS_CONFIG_FILE, disk)
    ELSE IF env.BDFS_CLIENT_ID # "" /\ env.BDFS_CLIENT_SECRET # "" /\ env.BDFS_TOKEN_PATH # ""
    THEN ConfigResult(Ptr([ClientID |-> env.BDFS_CLIENT_ID,
                           ClientSecret |-> env.BDFS_CLIENT_SECRET,
                           TokenPath |-> env.BDFS_TOKEN_PATH,
                           DefaultCloudDir |-> IF env.BDFS_DEFAULT_CLOUD_DIR = "" THEN "/"
                                               ELSE env.BDFS_DEFAULT_CLOUD_DIR]),
                      "", <<>>)
    ELSE IF env.HOME = ""
    THEN ConfigResult(Nil, "home", <<>>)
    ELSE GetBDFSConfigFromFile(DefaultConfigPath(env.HOME), disk)

\* GetBDFSConfig() as a function of the process environment and the file system
GetBDFSConfig(env, disk) ==
    IF env.BDFS_CLIENT_ID # "" /\ env.BDFS_CLIENT_SECRET # "" /\ env.BDFS_TOKEN_PATH # ""
    THEN ConfigResult(Ptr([ClientID |-> env.BDFS_CLIENT_ID,
                           ClientSecret |-> env.BDFS_CLIENT_SECRET,
                           TokenPath |-> env.BDFS_TOKEN_PATH,
                           DefaultCloudDir |-> IF env.BDFS_DEFAULT_CLOUD_DIR = "" THEN "/"
                                               ELSE env.BDFS_DEFAULT_CLOUD_DIR]),
                      "", <<>>)
    ELSE IF env.BDFS_CONFIG_FILE # ""
    THEN GetBDFSConfigFromFile(env.BDFS_CONFIG_FILE, disk)
    ELSE IF env.HOME = ""
    THEN ConfigResult(Nil, "home", <<>>)
    ELSE GetBDFSConfigFromFile(DefaultConfigPath(env.HOME), disk)

(***************************************************************************)
(* The listing, selection and naming code shared by the flows.             *)
(***************************************************************************)
\* U+00B7, the middle dot that stands for '/' in file names; it is written
\* here as an ASCII character that occurs in no other string of the model,
\* because TLC's stored states keep ASCII characters only
MiddleDot == "^"

NoneTag == "<none>:<none>"
All == "All"
CacheDir == "/tmp/go-dkci"

\* the tags of one image that become candidates (the inner loop, lines 41-53)
RECURSIVE RepoTagNames(_, _)
RepoTagNames(repoTags, pattern) ==
    IF Len(repoTags) = 0 THEN <<>>
    ELSE LET tag == Head(repoTags)
             keep == /\ tag # NoneTag
                     /\ IF pattern # "" THEN Contains(tag, pattern) ELSE TRUE
         IN  (IF keep THEN <<tag>> ELSE <<>>) \o RepoTagNames(Tail(repoTags), pattern)

\* imageNames: the candidates built from the daemon's image list (lines 38-54)
RECURSIVE ImageNames(_, _)
ImageNames(imgs, pattern) ==
    IF Len(imgs) = 0 THEN <<>>
    ELSE RepoTagNames(Head(imgs).RepoTags, pattern) \o ImageNames(Tail(imgs), pattern)

\* the options with "All" also before a single candidate
SelectionsAlwaysAll(names) == IF Len(names) > 0 THEN <<All>> \o names ELSE names

\* selections: the options of the multi-select prompt (lines 63-71)
Selections(names) == IF Len(names) > 1 THEN <<All>> \o names ELSE names

\* the "All" selection with the first candidate lost
HandleAllDropFirst(chosen, names) ==
    IF Len(chosen) = 1 /\ chosen[1] = All THEN Tail(names) ELSE chosen

\* the "All" selection of the image flows (lines 86-89)
HandleAll(chosen, names) ==
    IF Len(chosen) = 1 /\ chosen[1] = All THEN names ELSE chosen

\* no test for an empty selection
NeverNoneSelected(selected) == FALSE

\* the test for an empty selection (line 91)
NoneSelected(selected) == Len(selected) = 0

\* tarFileName with an empty tag left empty
TarFileNameNoLatest(imageName, osInfo, archInfo) ==
    LET nameParts == Split(imageName, ":")
        imageNameOnly == nameParts[1]
        tag == IF Len(nameParts) > 1 THEN nameParts[2] ELSE ""
        sanitizedImageName == ReplaceAll(imageNameOnly, "/", MiddleDot)
        suffixParts == << tag,
                          IF osInfo # "" THEN osInfo ELSE "unknown",
                          IF archInfo # "" THEN archInfo ELSE "unknown" >>
    IN  sanitizedImageName \o "_" \o Join(suffixParts, "_") \o ".tar"

\* tarFileName of ExportImage and ExportImageToCloud (lines 125-158)
TarFileName(imageName, osInfo, archInfo) ==
    LET nameParts == Split(imageName, ":")
        imageNameOnly == nameParts[1]
        tag == IF Len(nameParts) > 1 THEN nameParts[2] ELSE ""
        sanitizedImageName == ReplaceAll(imageNameOnly, "/", MiddleDot)
        suffixParts == << IF tag # "" THEN tag ELSE "latest",
                          IF osInfo # "" THEN osInfo ELSE "unknown",
                          IF archInfo # "" THEN archInfo ELSE "unknown" >>
    IN  sanitizedImageName \o "_" \o Join(suffixParts, "_") \o ".tar"

\* what cli.ImageInspectWithRaw can answer: an error, or the image's Os and
\* Architecture
InspectError == [err |-> TRUE, Os |-> "", Architecture |-> ""]
Inspected(os, arch) == [err |-> FALSE, Os |-> os, Architecture |-> arch]

InspectResults == {InspectError, Inspected("linux", "amd64"), Inspected("", "")}

\* osInfo and archInfo of ExportImage (lines 112-123)
OsInfo(inspect) == IF inspect.err THEN "" ELSE inspect.Os
ArchInfo(inspect) == IF inspect.err THEN "" ELSE inspect.Architecture

(***************************************************************************)
(* The state.                                                              *)
(***************************************************************************)
VARIABLES
    osArgs,       \* os.Args of a run of the program, empty when a function is
                  \* called on its own
    entry,        \* the function the run entered
    pc,           \* "main": in main, before the subcommand is dispatched;
                  \* "call": not started; "loop": in the per-item loop;
                  \* "done": returned; "exit": os.Exit was called
    environ,      \* the process environment
    fs,           \* the settings files of the file system, by path
    images,       \* the daemon's image list: RepoTags, Os and Architecture of each
    entries,      \* the paths a directory listing yields (walk or cloud list)
    grepPattern,  \* the grepPattern parameter
    target,       \* the destination, cloudPath or source parameter
    result,       \* a pointer to what GetBDFSConfig returned, Nil before it ran
    candidates,   \* imageNames or tarFiles
    selections,   \* the options given to the prompt, empty when none was shown
    answer,       \* a pointer to what the prompt returned, Nil when it did not
    items,        \* the list the per-item loop ranges over
    idx,          \* the loop's position in items
    handed,       \* the arguments of the per-item calls made so far
    exported,     \* image name, inspection and tarFileName of each export call
    ops,          \* the daemon, cloud and file operations made so far
    dirs,         \* the directories the run deals with that exist
    files,        \* the files under them that exist
    failed,       \* the "[x] " messages printed so far, by subject
    deletedCount, \* the count CleanCache reports, 0 until it does
    exitCode      \* -1 while running, else the process's exit code

vars == << osArgs, entry, pc, environ, fs, images, entries, grepPattern, target, result,
           candidates, selections, answer, items, idx, handed, exported, ops, dirs,
           files, failed, deletedCount, exitCode >>

Op(name, arg) == [op |-> name, arg |-> arg]

\* the message printed and the exit code set, with the per-item loop going on
FailWithoutExit(subject) ==
    /\ failed' = Append(failed, subject)
    /\ exitCode' = 1
    /\ pc' = IF pc = "loop" THEN "loop" ELSE "exit"

\* fmt.Printf("[x] ...") followed by os.Exit(1)
Fail(subject) ==
    /\ failed' = Append(failed, subject)
    /\ exitCode' = 1
    /\ pc' = "exit"

\* the position after one item with the loop left at the first failure
AfterItemStopAtFailure ==
    /\ idx' = idx + 1
    /\ IF failed' # failed
       THEN pc' = "exit" /\ exitCode' = 1
       ELSE IF idx = Len(items)
       THEN pc' = "done" /\ exitCode' = 0
       ELSE pc' = "loop" /\ exitCode' = exitCode

\* the position after one item of the loop: the function returns after the last
AfterItem ==
    /\ idx' = idx + 1
    /\ IF idx = Len(items)
       THEN pc' = "done" /\ exitCode' = 0
       ELSE pc' = "loop" /\ exitCode' = exitCode

(***************************************************************************)
(* The inputs of a run.                                                    *)
(***************************************************************************)
\* the images the daemon may hold, in the order it lists them
ImagePool ==
    << [RepoTags |-> <<"nginx:latest", "nginx:1.25">>, Os |-> "linux", Architecture |-> "amd64"],
       [RepoTags |-> <<"my/app:v1">>, Os |-> "linux", Architecture |-> "arm64"],
       [RepoTags |-> <<NoneTag>>, Os |-> "linux", Architecture |-> "amd64"],
       [RepoTags |-> <<"host:5000/a/b:v1">>, Os |-> "", Architecture |-> ""],
       [RepoTags |-> <<"a_b:c", "a:b_c">>, Os |-> "linux", Architecture |-> "amd64"] >>

RECURSIVE CountRepoTags(_)
CountRepoTags(imgs) ==
    IF Len(imgs) = 0 THEN 0 ELSE Len(Head(imgs).RepoTags) + CountRepoTags(Tail(imgs))

ImageLists == {l \in SubSeqs(ImagePool) : CountRepoTags(l) <= MaxRepoTags}

\* the image names ExportImage and ExportImageToCloud are called with directly
ImageNamePool ==
    {"nginx:latest", "nginx", "my/app", "my/app:v1", "host:5000/a/b:v1", "a/b/c:", "All"}

GrepPatterns == {"", "app", "v1"}
FilePatterns == {"", "B", "b", "tar"}

Destinations == {"/out"}
CloudPaths == {"/docker"}

EmptyEnv ==
    [BDFS_CLIENT_ID |-> "", BDFS_CLIENT_SECRET |-> "", BDFS_TOKEN_PATH |-> "",
     BDFS_DEFAULT_CLOUD_DIR |-> "", BDFS_CONFIG_FILE |-> "", HOME |-> HomeDir,
     DKCI_GREP_PATTERN |-> ""]

\* every setting of the variables GetBDFSConfig reads
ConfigEnvs ==
    [BDFS_CLIENT_ID : {"", "eid"}, BDFS_CLIENT_SECRET : {"", "esec"},
     BDFS_TOKEN_PATH : {"", "/etok"}, BDFS_DEFAULT_CLOUD_DIR : {"", "/edir"},
     BDFS_CONFIG_FILE : {"", CustomConfigPath}, HOME : {"", HomeDir},
     DKCI_GREP_PATTERN : {""}]

GoodFile ==
    [readable |-> TRUE, wellformed |-> TRUE,
     table |-> [client_id |-> "fid", client_secret |-> "fsec", token_path |-> "/ftok",
                default_cloud_dir |-> "/fdir"]]

\* the settings of the cloud flows: credentials in the environment, in the
\* default file, or nowhere
CloudEnvs ==
    { [EmptyEnv EXCEPT !.BDFS_CLIENT_ID = "eid", !.BDFS_CLIENT_SECRET = "esec",
                       !.BDFS_TOKEN_PATH = "/etok"],
      EmptyEnv }

CloudDisks ==
    { [p \in ConfigPaths |-> GoodFile],
      [p \in ConfigPaths |-> [GoodFile EXCEPT !.readable = FALSE]] }

\* what cli.ImageInspectWithRaw can answer for imageName: an error, or the Os
\* and Architecture of an image that carries the name; a direct call of
\* ExportImage meets a daemon whose images are not known
Inspect(imageName) ==
    IF entry \in {"ExportImage", "ExportImageToCloud"} THEN InspectResults
    ELSE {InspectError} \cup { Inspected(images[i].Os, images[i].Architecture) :
                        i \in {j \in 1..Len(images) : imageName \in Range(images[j].RepoTags)} }

\* the state of a run before its entry point has done anything
Fresh(e) ==
    /\ osArgs = <<>>
    /\ entry = e
    /\ result = Nil
    /\ candidates = <<>>
    /\ selections = <<>>
    /\ answer = Nil
    /\ idx = 1
    /\ handed = <<>>
    /\ exported = <<>>
    /\ ops = <<>>
    /\ dirs = {}
    /\ files = {}
    /\ failed = <<>>
    /\ deletedCount = 0
    /\ exitCode = -1

NoDaemon == images = <<>>
NoListing == entries = <<>>
NoSettings == environ = EmptyEnv /\ fs = [p \in ConfigPaths |-> GoodFile]

InitGetBDFSConfig ==
    /\ Fresh("GetBDFSConfig")
    /\ pc = "call" /\ items = <<>>
    /\ environ \in ConfigEnvs
    /\ fs \in [ConfigPaths -> ConfigFileStates]
    /\ NoDaemon /\ NoListing
    /\ grepPattern = "" /\ target = ""

InitExportImages ==
    /\ Fresh("ExportImages")
    /\ pc = "call" /\ items = <<>>
    /\ \E p \in GrepPatterns : environ = [EmptyEnv EXCEPT !.DKCI_GREP_PATTERN = p]
    /\ fs = [p \in ConfigPaths |-> GoodFile]
    /\ images \in ImageLists /\ NoListing
    /\ grepPattern = "" /\ target \in Destinations

InitDeleteImages ==
    /\ Fresh("DeleteImages")
    /\ pc = "call" /\ items = <<>>
    /\ NoSettings
    /\ images \in ImageLists /\ NoListing
    /\ grepPattern \in GrepPatterns /\ target = ""

\* ExportImage(cli, imageName, destination) called on its own
InitExportImage ==
    /\ Fresh("ExportImage")
    /\ pc = "loop" /\ items \in {<<n>> : n \in ImageNamePool}
    /\ NoSettings
    /\ NoDaemon /\ NoListing
    /\ grepPattern = "" /\ target \in Destinations

(***************************************************************************)
(* config.GetBDFSConfig called on its own.                                 *)
(***************************************************************************)
CallGetBDFSConfig ==
    /\ entry = "GetBDFSConfig" /\ pc = "call"
    /\ result' = Ptr(GetBDFSConfig(environ, fs))
    /\ pc' = "done"
    /\ UNCHANGED << osArgs, deletedCount, entry, environ, fs, images, entries, grepPattern, target,
                    candidates, selections, answer, items, idx, handed, ops, dirs,
                    files, failed, exitCode, exported >>

(***************************************************************************)
(* docker.ExportImages and docker.DeleteImages.                            *)
(***************************************************************************)
\* what the daemon does when the client is made and the images are listed
DaemonOutcomes == {"ok", "client", "list"}

\* survey.AskOne: an error, or the chosen options (MaxSelected at most) in the
\* order of the options
Answers(options) ==
    {Nil} \cup {Ptr(chosen) : chosen \in {c \in SubSeqs(options) : Len(c) <= MaxSelected}}

\* lines 17-103 of ExportImages
ExportImages ==
    /\ entry = "ExportImages" /\ pc = "call"
    /\ \E daemon \in DaemonOutcomes :
         LET imageNames == ImageNames(images, environ.DKCI_GREP_PATTERN)
         IN  IF daemon # "ok"
             THEN /\ Fail(daemon)
                  /\ UNCHANGED << candidates, selections, answer, items, dirs >>
             ELSE IF Len(images) = 0
             THEN /\ Fail("No Docker images found")
                  /\ UNCHANGED << candidates, selections, answer, items, dirs >>
             ELSE IF Len(imageNames) = 0
             THEN /\ Fail("No tagged Docker images found")
                  /\ candidates' = imageNames
                  /\ UNCHANGED << selections, answer, items, dirs >>
             ELSE /\ candidates' = imageNames
                  /\ selections' = Selections(imageNames)
                  /\ \E asked \in Answers(Selections(imageNames)), mkdir \in BOOLEAN :
                       /\ answer' = asked
                       /\ IF asked = Nil
                          THEN /\ Fail("Failed to get user selection")
                               /\ UNCHANGED << items, dirs >>
                          ELSE LET selectedImages == HandleAll(asked[1], imageNames)
                               IN  IF NoneSelected(selectedImages)
                                   THEN /\ Fail("No images selected")
                                        /\ UNCHANGED << items, dirs >>
                                   ELSE IF ~mkdir
                                   THEN /\ Fail("Failed to create destination directory")
                                        /\ UNCHANGED << items, dirs >>
                                   ELSE /\ dirs' = dirs \cup {target}
                                        /\ items' = selectedImages
                                        /\ pc' = "loop"
                                        /\ UNCHANGED << failed, exitCode >>
    /\ UNCHANGED << osArgs, deletedCount, entry, environ, fs, images, entries, grepPattern, target, result,
                    idx, handed, ops, files, exported >>

\* ExportImage(cli, imageName, destination), lines 111-188; step names the
\* call that fails, "ok" when none does
ExportImage ==
    /\ entry \in {"ExportImages", "ExportImage"} /\ pc = "loop" /\ idx <= Len(items)
    /\ LET imageName == items[idx]
       IN  \E inspect \in Inspect(imageName), step \in {"save", "create", "copy", "ok"} :
             LET tarFileName == TarFileName(imageName, OsInfo(inspect), ArchInfo(inspect))
                 tarFilePath == PathJoin(target, tarFileName)
             IN  /\ handed' = Append(handed, imageName)
                 /\ exported' = Append(exported, [imageName |-> imageName, inspect |-> inspect,
                                                  tarFileName |-> tarFileName])
                 /\ ops' = ops \o << Op("inspect", imageName), Op("save", imageName) >>
                               \o (IF step = "save" THEN <<>> ELSE << Op("create", tarFilePath) >>)
                 /\ files' = IF step \in {"copy", "ok"} THEN files \cup {tarFilePath} ELSE files
                 /\ failed' = IF step = "ok" THEN failed ELSE Append(failed, imageName)
    /\ AfterItem
    /\ UNCHANGED << osArgs, deletedCount, entry, environ, fs, images, entries, grepPattern, target, result,
                    candidates, selections, answer, items, dirs >>

\* lines 191-270 of DeleteImages
DeleteImages ==
    /\ entry = "DeleteImages" /\ pc = "call"
    /\ \E daemon \in DaemonOutcomes :
         LET imageNames == ImageNames(images, grepPattern)
         IN  IF daemon # "ok"
             THEN /\ Fail(daemon)
                  /\ UNCHANGED << candidates, selections, answer, items >>
             ELSE IF Len(images) = 0
             THEN /\ Fail("No Docker images found")
                  /\ UNCHANGED << candidates, selections, answer, items >>
             ELSE IF Len(imageNames) = 0
             THEN /\ Fail("No tagged Docker images found")
                  /\ candidates' = imageNames
                  /\ UNCHANGED << selections, answer, items >>
             ELSE /\ candidates' = imageNames
                  /\ selections' = Selections(imageNames)
                  /\ \E asked \in Answers(Selections(imageNames)) :
                       /\ answer' = asked
                       /\ IF asked = Nil
                          THEN /\ Fail("Failed to get user selection")
                               /\ UNCHANGED items
                          ELSE LET selectedImages == HandleAll(asked[1], imageNames)
                               IN  IF NoneSelected(selectedImages)
                                   THEN /\ Fail("No images selected")
                                        /\ UNCHANGED items
                                   ELSE /\ items' = selectedImages
                                        /\ pc' = "loop"
                                        /\ UNCHANGED << failed, exitCode >>
    /\ UNCHANGED << osArgs, deletedCount, entry, environ, fs, images, entries, grepPattern, target, result,
                    idx, handed, ops, dirs, files, exported >>

\* DeleteImage(cli, imageName), lines 278-292
DeleteImage ==
    /\ entry = "DeleteImages" /\ pc = "loop" /\ idx <= Len(items)
    /\ LET imageName == items[idx]
       IN  \E removed \in BOOLEAN :
             /\ handed' = Append(handed, imageName)
             /\ ops' = Append(ops, Op("remove", imageName))
             /\ failed' = IF removed THEN failed ELSE Append(failed, imageName)
    /\ AfterItem
    /\ UNCHANGED << osArgs, deletedCount, entry, environ, fs, images, entries, grepPattern, target, result,
                    candidates, selections, answer, items, dirs, files, exported >>

(***************************************************************************)
(* docker.ImportImagesFromSource on a directory.                           *)
(***************************************************************************)
Entry(path, isDir) == [Path |-> path, IsDir |-> isDir]

\* what filepath.Walk can meet under the source directory, in its (lexical) order
LocalPool ==
    << Entry("/d/B.TAR", FALSE), Entry("/d/a.tar", FALSE), Entry("/d/notes.txt", FALSE),
       Entry("/d/sub", TRUE), Entry("/d/sub/a.tar", FALSE), Entry("/d/x.tar.gz", FALSE) >>

LocalListings ==
    {l \in SubSeqs(LocalPool) :
        /\ Len(l) <= MaxFiles
        /\ Entry("/d/sub/a.tar", FALSE) \in Range(l) => Entry("/d/sub", TRUE) \in Range(l)}

\* the suffix test without strings.ToLower
IsTarNameExact(name) ==
    \/ HasSuffix(name, ".tar")
    \/ HasSuffix(name, ".tar.gz")
    \/ HasSuffix(name, ".tgz")

\* the suffix test of lines 678-681 (and of lines 274-276 of ImportImagesFromCloud)
IsTarName(name) ==
    LET lowerName == ToLower(name)
    IN  \/ HasSuffix(lowerName, ".tar")
        \/ HasSuffix(lowerName, ".tar.gz")
        \/ HasSuffix(lowerName, ".tgz")

\* baseName of lines 686 and 281
BaseName(path) == TrimSuffix(Base(path), Ext(path))

\* findTarFilesInDirectory with the pattern matched without regard to case
RECURSIVE findTarFilesInDirectoryFold(_, _)
findTarFilesInDirectoryFold(walk, pattern) ==
    IF Len(walk) = 0 THEN <<>>
    ELSE LET info == Head(walk)
             keep == /\ ~info.IsDir
                     /\ IsTarName(Base(info.Path))
                     /\ IF pattern # ""
                        THEN Contains(ToLower(BaseName(info.Path)), ToLower(pattern))
                        ELSE TRUE
         IN  (IF keep THEN <<info.Path>> ELSE <<>>)
                \o findTarFilesInDirectoryFold(Tail(walk), pattern)

\* findTarFilesInDirectory(dirPath, grepPattern), lines 668-704, over the
\* entries the walk visits
RECURSIVE findTarFilesInDirectory(_, _)
findTarFilesInDirectory(walk, pattern) ==
    IF Len(walk) = 0 THEN <<>>
    ELSE LET info == Head(walk)
             keep == /\ ~info.IsDir
                     /\ IsTarName(Base(info.Path))
                     /\ IF pattern # "" THEN Contains(BaseName(info.Path), pattern) ELSE TRUE
         IN  (IF keep THEN <<info.Path>> ELSE <<>>) \o findTarFilesInDirectory(Tail(walk), pattern)

\* selectionOptions of importFromDirectory (lines 549-558) and of
\* ImportImagesFromCloud (lines 297-306)
SelectionOptions(tarFiles) ==
    LET names == [i \in 1..Len(tarFiles) |-> Base(tarFiles[i])]
    IN  IF Len(tarFiles) > 1 THEN <<All>> \o names ELSE names

\* "All" replaced by the base names of all the files but the first
ReplaceAllOptionDropFirst(selectedFiles, tarFiles) ==
    [i \in 1..(Len(tarFiles) - 1) |-> Base(tarFiles[i + 1])]

\* the loop of lines 576-578: selectedFiles = append(selectedFiles[1:], base)
RECURSIVE ReplaceAllOption(_, _)
ReplaceAllOption(selectedFiles, tarFiles) ==
    IF Len(tarFiles) = 0 THEN selectedFiles
    ELSE ReplaceAllOption(Append(Tail(selectedFiles), Base(Head(tarFiles))), Tail(tarFiles))

\* the "All" selection of importFromDirectory (lines 573-579)
HandleAllDirectory(chosen, tarFiles) ==
    IF Len(chosen) = 1 /\ chosen[1] = All THEN ReplaceAllOption(chosen, tarFiles) ELSE chosen

\* the first of tarFiles whose base name is selectedFile, if any (the inner
\* loop of lines 589-594)
RECURSIVE FirstWithBase(_, _)
FirstWithBase(selectedFile, tarFiles) ==
    IF Len(tarFiles) = 0 THEN <<>>
    ELSE IF Base(Head(tarFiles)) = selectedFile THEN <<Head(tarFiles)>>
    ELSE FirstWithBase(selectedFile, Tail(tarFiles))

\* selectedFilePaths (lines 586-595 and lines 335-344 of ImportImagesFromCloud)
RECURSIVE SelectedFilePaths(_, _)
SelectedFilePaths(selectedFiles, tarFiles) ==
    IF Len(selectedFiles) = 0 THEN <<>>
    ELSE FirstWithBase(Head(selectedFiles), tarFiles)
            \o SelectedFilePaths(Tail(selectedFiles), tarFiles)

\* source paths that name one file
LocalFiles == {"/d/a.tar", "/d/notes.txt"}

\* ImportImagesFromSource(source, grepPattern) with importFromDirectory, lines
\* 519-596; access names the file system call that fails, "ok" when none does
ImportImagesFromSource ==
    /\ entry = "ImportImagesFromSource" /\ pc = "call"
    /\ \E access \in {"ok", "stat", "walk"} :
         LET tarFiles == findTarFilesInDirectory(entries, grepPattern)
         IN  IF access = "stat"
             THEN /\ Fail("Error accessing source")
                  /\ UNCHANGED << candidates, selections, answer, items >>
             ELSE IF target \in LocalFiles
             THEN /\ items' = << target >>
                  /\ pc' = "loop"
                  /\ UNCHANGED << candidates, selections, answer, failed, exitCode >>
             ELSE IF access = "walk"
             THEN /\ Fail("Error finding .tar files")
                  /\ UNCHANGED << candidates, selections, answer, items >>
             ELSE IF Len(tarFiles) = 0
             THEN /\ Fail("No .tar files found in the specified directory")
                  /\ candidates' = tarFiles
                  /\ UNCHANGED << selections, answer, items >>
             ELSE /\ candidates' = tarFiles
                  /\ selections' = SelectionOptions(tarFiles)
                  /\ \E asked \in Answers(SelectionOptions(tarFiles)) :
                       /\ answer' = asked
                       /\ IF asked = Nil
                          THEN /\ Fail("Failed to get user selection")
                               /\ UNCHANGED items
                          ELSE LET selectedFiles == HandleAllDirectory(asked[1], tarFiles)
                               IN  IF NoneSelected(selectedFiles)
                                   THEN /\ Fail("No files selected for import")
                                        /\ UNCHANGED items
                                   ELSE /\ items' = SelectedFilePaths(selectedFiles, tarFiles)
                                        /\ IF Len(SelectedFilePaths(selectedFiles, tarFiles)) = 0
                                           THEN pc' = "done" /\ exitCode' = 0
                                           ELSE pc' = "loop" /\ exitCode' = exitCode
                                        /\ UNCHANGED failed
    /\ UNCHANGED << osArgs, deletedCount, entry, environ, fs, images, entries, grepPattern, target, result,
                    idx, handed, ops, dirs, files, exported >>

\* the calls of importFromFile that can fail; "ok" when none does
ImportSteps(filePath) ==
    {"client", "open", "stat", "load", "read", "ok"}
        \cup (IF HasSuffix(ToLower(filePath), ".tar.gz") \/ HasSuffix(ToLower(filePath), ".tgz")
              THEN {"gzip"} ELSE {})

\* importFromFile(filePath), lines 603-666
importFromFile ==
    /\ entry = "ImportImagesFromSource" /\ pc = "loop" /\ idx <= Len(items)
    /\ LET filePath == items[idx]
       IN  \E step \in ImportSteps(filePath) :
             /\ handed' = Append(handed, filePath)
             /\ ops' = IF step \in {"load", "read", "ok"}
                       THEN Append(ops, Op("load", filePath)) ELSE ops
             /\ IF step = "ok"
                THEN UNCHANGED failed /\ AfterItem
                ELSE Fail(filePath) /\ UNCHANGED idx
    /\ UNCHANGED << osArgs, deletedCount, entry, environ, fs, images, entries, grepPattern, target, result,
                    candidates, selections, answer, items, dirs, files, exported >>

InitImportImagesFromSource ==
    /\ Fresh("ImportImagesFromSource")
    /\ pc = "call" /\ items = <<>>
    /\ NoSettings
    /\ NoDaemon
    /\ \/ target = "/d" /\ entries \in LocalListings
       \/ target \in LocalFiles /\ NoListing
    /\ grepPattern \in FilePatterns

\* the temporary files with a written file never removed
TempFilesNeverRemoved(fileSet, path, written, removeCalled, removed) ==
    IF written THEN fileSet \cup {path} ELSE fileSet

\* the temporary files after one item of a cloud flow: the item's file exists
\* once os.Create has made it, and is gone once os.Remove was called and has
\* deleted it (lines 195-223 and 376-396)
TempFilesAfter(fileSet, path, written, removeCalled, removed) ==
    IF ~written THEN fileSet
    ELSE IF removeCalled /\ removed THEN fileSet \ {path}
    ELSE fileSet \cup {path}

(***************************************************************************)
(* cloud.ExportImagesToCloud.                                              *)
(***************************************************************************)
\* lines 20-117 of ExportImagesToCloud
ExportImagesToCloud ==
    /\ entry = "ExportImagesToCloud" /\ pc = "call"
    /\ result' = Ptr(GetBDFSConfig(environ, fs))
    /\ \E authorized \in BOOLEAN, daemon \in DaemonOutcomes :
         LET imageNames == ImageNames(images, environ.DKCI_GREP_PATTERN)
         IN  IF GetBDFSConfig(environ, fs).err # ""
             THEN /\ Fail("Error getting BDFS configuration")
                  /\ UNCHANGED << candidates, selections, answer, items, ops >>
             ELSE IF ~authorized
             THEN /\ Fail("Failed to login to Baidu cloud")
                  /\ ops' = Append(ops, Op("authorize", ""))
                  /\ UNCHANGED << candidates, selections, answer, items >>
             ELSE /\ ops' = Append(ops, Op("authorize", ""))
                  /\ IF daemon # "ok"
                     THEN /\ Fail(daemon)
                          /\ UNCHANGED << candidates, selections, answer, items >>
                     ELSE IF Len(images) = 0
                     THEN /\ Fail("No Docker images found")
                          /\ UNCHANGED << candidates, selections, answer, items >>
                     ELSE IF Len(imageNames) = 0
                     THEN /\ Fail("No tagged Docker images found")
                          /\ candidates' = imageNames
                          /\ UNCHANGED << selections, answer, items >>
                     ELSE /\ candidates' = imageNames
                          /\ selections' = Selections(imageNames)
                          /\ \E asked \in Answers(Selections(imageNames)) :
                               /\ answer' = asked
                               /\ IF asked = Nil
                                  THEN /\ Fail("Failed to get user selection")
                                       /\ UNCHANGED items
                                  ELSE LET selectedImages == HandleAll(asked[1], imageNames)
                                       IN  IF NoneSelected(selectedImages)
                                           THEN /\ Fail("No images selected")
                                                /\ UNCHANGED items
                                           ELSE /\ items' = selectedImages
                                                /\ pc' = "loop"
                                                /\ UNCHANGED << failed, exitCode >>
    /\ UNCHANGED << osArgs, deletedCount, entry, environ, fs, images, entries, grepPattern, target,
                    idx, handed, dirs, files, exported >>

\* ExportImageToCloud(cli, imageName, cloudPath, bdfsClient), lines 125-226;
\* step names the call that fails, "ok" when none does, and removed tells
\* whether os.Remove deletes the temporary file; the operation "warn" is the
\* warning printed when it does not
ExportImageToCloud ==
    /\ entry \in {"ExportImagesToCloud", "ExportImageToCloud"}
    /\ pc = "loop" /\ idx <= Len(items)
    /\ LET imageName == items[idx]
       IN  \E inspect \in Inspect(imageName),
              step \in {"mkdir", "save", "create", "copy", "upload", "ok"},
              removed \in BOOLEAN :
             LET tarFileName == TarFileName(imageName, OsInfo(inspect), ArchInfo(inspect))
                 tempFilePath == PathJoin(CacheDir, tarFileName)
                 remoteFilePath == PathJoin(target, tarFileName)
             IN  /\ handed' = Append(handed, imageName)
                 /\ exported' = Append(exported, [imageName |-> imageName, inspect |-> inspect,
                                                  tarFileName |-> tarFileName])
                 /\ dirs' = IF step = "mkdir" THEN dirs ELSE dirs \cup {CacheDir}
                 /\ ops' = ops \o << Op("inspect", imageName) >>
                       \o (IF step = "mkdir" THEN <<>> ELSE << Op("save", imageName) >>)
                       \o (IF step \in {"mkdir", "save"} THEN <<>>
                           ELSE << Op("create", tempFilePath) >>)
                       \o (IF step \in {"upload", "ok"}
                           THEN << Op("upload", remoteFilePath), Op("removeFile", tempFilePath) >>
                           ELSE <<>>)
                       \o (IF step = "ok" /\ ~removed THEN << Op("warn", tempFilePath) >>
                           ELSE <<>>)
                 /\ files' = TempFilesAfter(files, tempFilePath,
                                            step \in {"copy", "upload", "ok"},
                                            step \in {"upload", "ok"}, removed)
                 /\ failed' = IF step = "ok" THEN failed ELSE Append(failed, imageName)
    /\ AfterItem
    /\ UNCHANGED << osArgs, deletedCount, entry, environ, fs, images, entries, grepPattern, target, result,
                    candidates, selections, answer, items >>

InitExportImagesToCloud ==
    /\ Fresh("ExportImagesToCloud")
    /\ pc = "call" /\ items = <<>>
    /\ \E e \in CloudEnvs, p \in GrepPatterns : environ = [e EXCEPT !.DKCI_GREP_PATTERN = p]
    /\ fs \in {disk \in CloudDisks : environ.BDFS_CLIENT_ID # "" => disk[CustomConfigPath].readable}
    /\ images \in ImageLists /\ NoListing
    /\ grepPattern = "" /\ target \in CloudPaths

\* ExportImageToCloud(cli, imageName, cloudPath, bdfsClient) called on its own
InitExportImageToCloud ==
    /\ Fresh("ExportImageToCloud")
    /\ pc = "loop" /\ items \in {<<n>> : n \in ImageNamePool}
    /\ NoSettings
    /\ NoDaemon /\ NoListing
    /\ grepPattern = "" /\ target \in CloudPaths

(***************************************************************************)
(* cloud.ImportImagesFromCloud.                                            *)
(***************************************************************************)
\* what bdfsClient.ListFiles can return for the cloud directory
CloudPool ==
    << Entry("/docker/B.TAR", FALSE), Entry("/docker/a.tar", FALSE),
       Entry("/docker/notes.txt", FALSE), Entry("/docker/x.tar.gz", FALSE) >>

CloudListings == {l \in SubSeqs(CloudPool) : Len(l) <= MaxFiles}

\* cloud paths that name one file
CloudFiles == {"/docker/a.tar", "/docker/notes.txt"}

\* tarFiles of ImportImagesFromCloud (lines 271-290), by path
RECURSIVE CloudTarFiles(_, _)
CloudTarFiles(listed, pattern) ==
    IF Len(listed) = 0 THEN <<>>
    ELSE LET file == Head(listed)
             keep == /\ IsTarName(file.Path)
                     /\ IF pattern # "" THEN Contains(BaseName(file.Path), pattern) ELSE TRUE
         IN  (IF keep THEN <<file.Path>> ELSE <<>>) \o CloudTarFiles(Tail(listed), pattern)

\* the "All" selection of ImportImagesFromCloud (lines 321-328)
HandleAllCloud(chosen, tarFiles) ==
    IF Len(chosen) = 1 /\ chosen[1] = All
    THEN [i \in 1..Len(tarFiles) |-> Base(tarFiles[i])]
    ELSE chosen

\* lines 229-345 of ImportImagesFromCloud; listed tells whether ListFiles
\* succeeds (it fails on a path that names a file) and found whether
\* GetFileInfoByPath does
ImportImagesFromCloud ==
    /\ entry = "ImportImagesFromCloud" /\ pc = "call"
    /\ result' = Ptr(GetBDFSConfig(environ, fs))
    /\ \E authorized \in BOOLEAN, listed \in {l \in BOOLEAN : l => target \notin CloudFiles},
          found \in BOOLEAN :
         LET tarFiles == CloudTarFiles(entries, grepPattern)
         IN  IF GetBDFSConfig(environ, fs).err # ""
             THEN /\ Fail("Error getting BDFS configuration")
                  /\ UNCHANGED << candidates, selections, answer, items, ops >>
             ELSE IF ~authorized
             THEN /\ Fail("Failed to login to Baidu cloud")
                  /\ ops' = Append(ops, Op("authorize", ""))
                  /\ UNCHANGED << candidates, selections, answer, items >>
             ELSE IF ~listed
             THEN /\ ops' = ops \o << Op("authorize", ""), Op("list", target), Op("info", target) >>
                  /\ UNCHANGED << candidates, selections, answer >>
                  /\ IF ~found
                     THEN Fail("Error accessing cloud file") /\ UNCHANGED items
                     ELSE IF IsTarName(target)
                     THEN /\ items' = << target >>
                          /\ pc' = "loop"
                          /\ UNCHANGED << failed, exitCode >>
                     ELSE Fail("The specified file is not a .tar file") /\ UNCHANGED items
             ELSE /\ ops' = ops \o << Op("authorize", ""), Op("list", target) >>
                  /\ candidates' = tarFiles
                  /\ IF Len(tarFiles) = 0
                     THEN /\ Fail("No .tar files found in the specified cloud directory")
                          /\ UNCHANGED << selections, answer, items >>
                     ELSE /\ selections' = SelectionOptions(tarFiles)
                          /\ \E asked \in Answers(SelectionOptions(tarFiles)) :
                               /\ answer' = asked
                               /\ IF asked = Nil
                                  THEN /\ Fail("Failed to get user selection")
                                       /\ UNCHANGED items
                                  ELSE LET selectedFiles == HandleAllCloud(asked[1], tarFiles)
                                       IN  IF NoneSelected(selectedFiles)
                                           THEN /\ Fail("No files selected for import")
                                                /\ UNCHANGED items
                                           ELSE /\ items' = SelectedFilePaths(selectedFiles, tarFiles)
                                                /\ IF Len(SelectedFilePaths(selectedFiles, tarFiles)) = 0
                                                   THEN pc' = "done" /\ exitCode' = 0
                                                   ELSE pc' = "loop" /\ exitCode' = exitCode
                                                /\ UNCHANGED failed
    /\ UNCHANGED << osArgs, deletedCount, entry, environ, fs, images, entries, grepPattern, target,
                    idx, handed, dirs, files, exported >>

\* downloadAndImportFromCloud(bdfsClient, cloudFilePath), lines 354-397, with
\* the import of the downloaded file (ImportImagesFromSource, whose os.Stat is
\* the step "source", and importFromFile); step names the call that fails,
\* "ok" when none does, and removed tells whether os.Remove deletes the
\* temporary file
downloadAndImportFromCloud ==
    /\ entry = "ImportImagesFromCloud" /\ pc = "loop" /\ idx <= Len(items)
    /\ LET cloudFilePath == items[idx]
           localFilePath == PathJoin(CacheDir, Base(cloudFilePath))
       IN  \E step \in {"mkdir", "download", "create", "copy", "source"}
                            \cup ImportSteps(localFilePath),
              removed \in BOOLEAN :
             /\ handed' = Append(handed, cloudFilePath)
             /\ dirs' = IF step = "mkdir" THEN dirs ELSE dirs \cup {CacheDir}
             /\ ops' = ops
                  \o (IF step = "mkdir" THEN <<>> ELSE << Op("download", cloudFilePath) >>)
                  \o (IF step \in {"mkdir", "download"} THEN <<>>
                      ELSE << Op("create", localFilePath) >>)
                  \o (IF step \in {"load", "read", "ok"} THEN << Op("load", localFilePath) >>
                      ELSE <<>>)
                  \o (IF step = "ok" THEN << Op("removeFile", localFilePath) >> ELSE <<>>)
                  \o (IF step = "ok" /\ ~removed THEN << Op("warn", localFilePath) >> ELSE <<>>)
             /\ files' = TempFilesAfter(files, localFilePath,
                                        step \notin {"mkdir", "download", "create"},
                                        step = "ok", removed)
             /\ IF step = "ok"
                THEN UNCHANGED failed /\ AfterItem
                ELSE Fail(cloudFilePath) /\ UNCHANGED idx
    /\ UNCHANGED << osArgs, deletedCount, entry, environ, fs, images, entries, grepPattern, target, result,
                    candidates, selections, answer, items, exported >>

InitImportImagesFromCloud ==
    /\ Fresh("ImportImagesFromCloud")
    /\ pc = "call" /\ items = <<>>
    /\ environ \in CloudEnvs
    /\ fs \in CloudDisks
    /\ NoDaemon
    /\ \/ target \in CloudPaths /\ entries \in CloudListings
       \/ target \in CloudFiles /\ NoListing
    /\ grepPattern \in FilePatterns

(***************************************************************************)
(* docker.CleanCache.                                                      *)
(***************************************************************************)
\* what os.ReadDir can find in the cache directory
CachePool ==
    << Entry("/tmp/go-dkci/a.tar", FALSE), Entry("/tmp/go-dkci/b.tar", FALSE),
       Entry("/tmp/go-dkci/old", TRUE) >>

CacheListings == {l \in SubSeqs(CachePool) : Len(l) <= MaxFiles}

\* the cache directory before the run: missing, or holding a listing
CacheStates ==
    {[exists |-> FALSE, listing |-> <<>>]}
        \cup {[exists |-> TRUE, listing |-> l] : l \in CacheListings}

\* filesToDelete of lines 317-322
FilesToDelete(dirEntries) ==
    [i \in 1..Len(dirEntries) |-> PathJoin(CacheDir, Base(dirEntries[i].Path))]

\* the lines the user may type at the confirmation
Lines == {"yes", "no", "", "Yes", "y", " yes", "yes please"}

\* a response that takes every line beginning with the letter y for "yes"
ScanlnFirstLetter(line) == IF HasPrefix(ToLower(line), "y") THEN "yes" ELSE line

\* fmt.Scanln(&response), line 331: the blanks before the first word are
\* skipped and the word is stored, up to the next blank or the end of the line
\* (what follows the word makes Scanln return an error, which is not read)
RECURSIVE Scanln(_)
Scanln(line) ==
    LET blank == Index(line, " ")
    IN  IF blank = 0 THEN line
        ELSE IF blank = 1 THEN Scanln(SubSeq(line, 2, Len(line)))
        ELSE SubSeq(line, 1, blank - 1)

\* CleanCache(), lines 295-352; the directory exists when it is in dirs,
\* readable tells whether os.ReadDir reads it, line is what the user types and
\* kept is the set of the positions whose os.RemoveAll fails
CleanCache ==
    /\ entry = "CleanCache" /\ pc = "call"
    /\ \E readable \in BOOLEAN, line \in Lines, kept \in SUBSET (1..Len(entries)) :
         LET filesToDelete == FilesToDelete(entries)
             response == Scanln(line)
         IN  IF CacheDir \notin dirs
             THEN /\ Fail("Cache directory does not exist")
                  /\ UNCHANGED << selections, answer, handed, ops, files, deletedCount >>
             ELSE IF ~readable
             THEN /\ Fail("Failed to read cache directory")
                  /\ UNCHANGED << selections, answer, handed, ops, files, deletedCount >>
             ELSE IF Len(entries) = 0
             THEN /\ pc' = "done" /\ exitCode' = 0
                  /\ UNCHANGED << selections, answer, handed, ops, files, failed,
                                  deletedCount >>
             ELSE /\ selections' = filesToDelete
                  /\ answer' = Ptr(<< line >>)
                  /\ pc' = "done" /\ exitCode' = 0
                  /\ IF response # "yes"
                     THEN /\ failed' = Append(failed, "Cache cleanup cancelled by user")
                          /\ UNCHANGED << handed, ops, files, deletedCount >>
                     ELSE /\ handed' = filesToDelete
                          /\ ops' = ops \o [i \in 1..Len(filesToDelete) |->
                                               Op("removeAll", filesToDelete[i])]
                          /\ files' = files \cap Range(Pick(filesToDelete, kept, 1))
                          /\ failed' = failed \o Pick(filesToDelete, kept, 1)
                          /\ deletedCount' = Len(filesToDelete) - Cardinality(kept)
    /\ UNCHANGED << osArgs, entry, environ, fs, images, entries, grepPattern, target, result,
                    candidates, items, idx, dirs, exported >>

(***************************************************************************)
(* main: the command line and the dispatch of the subcommands.             *)
(***************************************************************************)
\* the names of the flags, by shorthand letter
Shorthands == [d |-> "destination", c |-> "cloud", g |-> "grep", s |-> "source"]

\* the flags of each subcommand's flag set, with their default values (lines
\* 46-65)
FlagSets ==
    [export |-> [destination |-> "/tmp/go-dkci", cloud |-> "", grep |-> ""],
     import |-> [source |-> "", cloud |-> "", grep |-> ""],
     delete |-> [grep |-> ""],
     clean |-> [x \in {} |-> ""],
     version |-> [x \in {} |-> ""]]

ParseResult(err, values) == [err |-> err, values |-> values]

\* FlagSet.Parse of pflag over string flags: "--name=value", "--name value",
\* "-x=value", "-xvalue" and "-x value" set a flag, "--" ends the flags and
\* any other argument is positional; err is "help" for -h or --help,
\* "error" for an unknown flag or a missing value, "" otherwise
RECURSIVE Parse(_, _)
Parse(arguments, values) ==
    IF Len(arguments) = 0 THEN ParseResult("", values)
    ELSE LET arg == Head(arguments)
             long == Len(arg) > 2 /\ HasPrefix(arg, "--")
             short == ~HasPrefix(arg, "--") /\ Len(arg) >= 2 /\ HasPrefix(arg, "-")
             eq == Index(arg, "=")
             letter == SubSeq(arg, 2, 2)
             name == IF long
                     THEN (IF eq = 0 THEN SubSeq(arg, 3, Len(arg)) ELSE SubSeq(arg, 3, eq - 1))
                     ELSE IF letter \in DOMAIN Shorthands THEN Shorthands[letter]
                     ELSE IF letter = "h" THEN "help"
                     ELSE ""
             inline == IF long THEN eq # 0 ELSE Len(arg) > 2
             value == IF long THEN SubSeq(arg, eq + 1, Len(arg))
                      ELSE IF SubSeq(arg, 3, 3) = "=" THEN SubSeq(arg, 4, Len(arg))
                      ELSE SubSeq(arg, 3, Len(arg))
         IN  IF arg = "--" THEN ParseResult("", values)
             ELSE IF ~long /\ ~short THEN Parse(Tail(arguments), values)
             ELSE IF name \notin DOMAIN values
             THEN ParseResult(IF name = "help" THEN "help" ELSE "error", values)
             ELSE IF inline
             THEN Parse(Tail(arguments), [values EXCEPT ![name] = value])
             ELSE IF Len(arguments) < 2 THEN ParseResult("error", values)
             ELSE Parse(Tail(Tail(arguments)), [values EXCEPT ![name] = arguments[2]])

\* showHelp of lines 77-83
ShowHelp(arguments) == \E i \in 1..Len(arguments) : arguments[i] \in {"-h", "--help"}

\* hasDFlag, hasCFlag and hasSFlag of lines 89-98 and 161-170
HasFlag(arguments, shorthand, name) ==
    \E i \in 1..Len(arguments) :
        HasPrefix(arguments[i], shorthand) \/ HasPrefix(arguments[i], name)

\* os.Setenv("DKCI_GREP_PATTERN", grepPattern) when grepPattern is not empty
\* (lines 103-105)
StoreGrepPattern(env, pattern) ==
    IF pattern # "" THEN [env EXCEPT !.DKCI_GREP_PATTERN = pattern] ELSE env

\* bdfsConfigAvailable of lines 114-118
BdfsConfigAvailable(env) ==
    \/ env.BDFS_CONFIG_FILE # ""
    \/ env.BDFS_CLIENT_ID # "" /\ env.BDFS_CLIENT_SECRET # "" /\ env.BDFS_TOKEN_PATH # ""

\* the directories main's import runs list
MainLocalListing == << Entry("/d/a.tar", FALSE), Entry("/d/x.tar.gz", FALSE) >>
MainCloudListing ==
    << Entry("/docker/B.TAR", FALSE), Entry("/docker/c.tgz", FALSE),
       Entry("/docker/notes.txt", FALSE) >>

\* what the directory at a path holds
ListingAt(path) ==
    IF path = "/d" THEN MainLocalListing
    ELSE IF path = "/docker" THEN MainCloudListing
    ELSE <<>>

\* main calls function(path, pattern)
Call(function, path, pattern) ==
    /\ entry' = function
    /\ pc' = "call"
    /\ target' = path
    /\ grepPattern' = pattern
    /\ UNCHANGED << failed, exitCode >>

\* main ends with os.Exit(code), or returns (code 0)
Exit(code) ==
    /\ pc' = "exit"
    /\ exitCode' = code
    /\ UNCHANGED << entry, target, grepPattern, failed >>

\* lines 85-146: the export subcommand
MainExport(arguments) ==
    LET parsed == Parse(arguments, FlagSets.export)
        hasDFlag == HasFlag(arguments, "-d", "--destination")
        hasCFlag == HasFlag(arguments, "-c", "--cloud")
        destination == parsed.values.destination
        cloudPath == parsed.values.cloud
        env == StoreGrepPattern(environ, parsed.values.grep)
        configData == GetBDFSConfig(env, fs)
    IN  IF parsed.err # ""
        THEN Exit(IF parsed.err = "help" THEN 0 ELSE 2) /\ UNCHANGED << environ, entries >>
        ELSE IF ShowHelp(arguments)
        THEN Exit(0) /\ UNCHANGED << environ, entries >>
        ELSE /\ environ' = env
             /\ UNCHANGED entries
             /\ IF hasDFlag /\ cloudPath # ""
                THEN Fail("-d and -c flags are mutually exclusive")
                        /\ UNCHANGED << entry, target, grepPattern >>
                ELSE IF cloudPath # ""
                THEN Call("ExportImagesToCloud", cloudPath, "")
                ELSE IF hasCFlag
                THEN IF configData.err # ""
                     THEN Fail("Error getting BDFS configuration")
                             /\ UNCHANGED << entry, target, grepPattern >>
                     ELSE Call("ExportImagesToCloud",
                               IF configData.config[1].DefaultCloudDir = "" THEN "/"
                               ELSE configData.config[1].DefaultCloudDir, "")
                ELSE IF BdfsConfigAvailable(env)
                THEN IF configData.err # ""
                     THEN Fail("Error getting BDFS configuration")
                             /\ UNCHANGED << entry, target, grepPattern >>
                     ELSE Call("ExportImagesToCloud", configData.config[1].DefaultCloudDir, "")
                ELSE Call("ExportImages", destination, "")

\* lines 157-208: the import subcommand
MainImport(arguments) ==
    LET parsed == Parse(arguments, FlagSets.import)
        hasSFlag == HasFlag(arguments, "-s", "--source")
        hasCFlag == HasFlag(arguments, "-c", "--cloud")
        source == parsed.values.source
        cloudImportPath == parsed.values.cloud
        pattern == parsed.values.grep
        env == StoreGrepPattern(environ, pattern)
        configData == GetBDFSConfig(env, fs)
    IN  IF parsed.err # ""
        THEN Exit(IF parsed.err = "help" THEN 0 ELSE 2) /\ UNCHANGED << environ, entries >>
        ELSE IF ShowHelp(arguments)
        THEN Exit(0) /\ UNCHANGED << environ, entries >>
        ELSE /\ environ' = env
             /\ IF hasSFlag /\ cloudImportPath # ""
                THEN Fail("-s and -c flags are mutually exclusive")
                        /\ UNCHANGED << entry, target, grepPattern, entries >>
                ELSE IF source # ""
                THEN Call("ImportImagesFromSource", source, pattern)
                        /\ entries' = ListingAt(source)
                ELSE IF cloudImportPath # ""
                THEN Call("ImportImagesFromCloud", cloudImportPath, pattern)
                        /\ entries' = ListingAt(cloudImportPath)
                ELSE IF hasCFlag
                THEN IF configData.err # ""
                     THEN Fail("Error getting BDFS configuration")
                             /\ UNCHANGED << entry, target, grepPattern, entries >>
                     ELSE LET defaultPath ==
                                  IF configData.config[1].DefaultCloudDir = "" THEN "/"
                                  ELSE configData.config[1].DefaultCloudDir
                          IN  Call("ImportImagesFromCloud", defaultPath, pattern)
                                 /\ entries' = ListingAt(defaultPath)
                ELSE Fail("either -s/--source or -c/--cloud flag is required")
                        /\ UNCHANGED << entry, target, grepPattern, entries >>

\* lines 219-230: the delete subcommand
MainDelete(arguments) ==
    LET parsed == Parse(arguments, FlagSets.delete)
    IN  IF parsed.err # ""
        THEN Exit(IF parsed.err = "help" THEN 0 ELSE 2) /\ UNCHANGED << environ, entries >>
        ELSE IF ShowHelp(arguments)
        THEN Exit(0) /\ UNCHANGED << environ, entries >>
        ELSE /\ environ' = StoreGrepPattern(environ, parsed.values.grep)
             /\ Call("DeleteImages", "", parsed.values.grep)
             /\ UNCHANGED entries

\* lines 241-262: the version and clean subcommands
MainClean(arguments) ==
    LET parsed == Parse(arguments, FlagSets.clean)
    IN  IF parsed.err # ""
        THEN Exit(IF parsed.err = "help" THEN 0 ELSE 2) /\ UNCHANGED << environ, entries >>
        ELSE IF ShowHelp(arguments)
        THEN Exit(0) /\ UNCHANGED << environ, entries >>
        ELSE /\ Call("CleanCache", "", "")
             /\ UNCHANGED << environ, entries >>

MainVersion(arguments) ==
    LET parsed == Parse(arguments, FlagSets.version)
    IN  /\ Exit(IF parsed.err \in {"", "help"} THEN 0 ELSE 2)
        /\ UNCHANGED << environ, entries >>

\* main(), lines 44-273
main ==
    /\ entry = "main" /\ pc = "main"
    /\ LET arguments == SubSeq(osArgs, 3, Len(osArgs))
       IN  IF Len(osArgs) < 2
           THEN Exit(0) /\ UNCHANGED << environ, entries >>
           ELSE IF osArgs[2] = "export" THEN MainExport(arguments)
           ELSE IF osArgs[2] = "import" THEN MainImport(arguments)
           ELSE IF osArgs[2] = "delete" THEN MainDelete(arguments)
           ELSE IF osArgs[2] = "version" THEN MainVersion(arguments)
           ELSE IF osArgs[2] = "clean" THEN MainClean(arguments)
           ELSE IF osArgs[2] \in {"help", "-h", "--help"}
           THEN Exit(0) /\ UNCHANGED << environ, entries >>
           ELSE Exit(1) /\ UNCHANGED << environ, entries >>
    /\ UNCHANGED << osArgs, deletedCount, fs, images, result, candidates, selections, answer, items, idx,
                    handed, exported, ops, dirs, files >>

\* the command lines of the runs
CommandLines ==
    { << "go-dkci" >>,
      << "go-dkci", "help" >>,
      << "go-dkci", "version" >>,
      << "go-dkci", "frobnicate" >>,
      << "go-dkci", "clean" >>,
      << "go-dkci", "export" >>,
      << "go-dkci", "export", "--help" >>,
      << "go-dkci", "export", "-d", "/out" >>,
      << "go-dkci", "export", "-d", "/out", "-g", "app" >>,
      << "go-dkci", "export", "--cloud=/docker" >>,
      << "go-dkci", "export", "-d", "/out", "-c", "/docker" >>,
      << "go-dkci", "export", "-d", "/out", "-c", "" >>,
      << "go-dkci", "delete" >>,
      << "go-dkci", "delete", "-g", "app" >>,
      << "go-dkci", "delete", "-g" >>,
      << "go-dkci", "import" >>,
      << "go-dkci", "import", "-s", "/d" >>,
      << "go-dkci", "import", "-c", "/docker" >>,
      << "go-dkci", "import", "-c", "" >>,
      << "go-dkci", "import", "-s", "/d", "-c", "/docker" >>,
      << "go-dkci", "import", "--source=/d", "--cloud=" >> }

\* the images of the daemon main's runs meet
MainImages == << ImagePool[2], ImagePool[4] >>

\* the settings of main's runs, environment and files: none that is usable, the
\* home file, the three variables, or the file BDFS_CONFIG_FILE names
MainSettings ==
    { [env |-> EmptyEnv, disk |-> [p \in ConfigPaths |-> [GoodFile EXCEPT !.readable = FALSE]]],
      [env |-> EmptyEnv, disk |-> [p \in ConfigPaths |-> GoodFile]],
      [env |-> [EmptyEnv EXCEPT !.BDFS_CLIENT_ID = "eid", !.BDFS_CLIENT_SECRET = "esec",
                                !.BDFS_TOKEN_PATH = "/etok"],
       disk |-> [p \in ConfigPaths |-> GoodFile]],
      [env |-> [EmptyEnv EXCEPT !.BDFS_CONFIG_FILE = CustomConfigPath],
       disk |-> [p \in ConfigPaths |-> GoodFile]] }

\* the DKCI_GREP_PATTERN an export or delete run may inherit
Inherited(line) ==
    IF Len(line) >= 2 /\ line[2] \in {"export", "delete"} THEN {"", "host"} ELSE {""}

InitMain ==
    /\ entry = "main" /\ pc = "main"
    /\ osArgs \in CommandLines
    /\ \E settings \in MainSettings, p \in Inherited(osArgs) :
         /\ environ = [settings.env EXCEPT !.DKCI_GREP_PATTERN = p]
         /\ fs = settings.disk
    /\ images = (IF Len(osArgs) >= 2 /\ osArgs[2] \in {"export", "delete"}
                 THEN MainImages ELSE <<>>)
    /\ IF Len(osArgs) >= 2 /\ osArgs[2] = "clean"
       THEN \E cache \in CacheStates :
              /\ dirs = (IF cache.exists THEN {CacheDir} ELSE {})
              /\ entries = cache.listing
              /\ files = Range(FilesToDelete(cache.listing))
       ELSE NoListing /\ dirs = {} /\ files = {}
    /\ grepPattern = "" /\ target = "" /\ items = <<>>
    /\ result = Nil /\ candidates = <<>> /\ selections = <<>> /\ answer = Nil
    /\ idx = 1 /\ handed = <<>> /\ exported = <<>> /\ ops = <<>>
    /\ failed = <<>> /\ deletedCount = 0 /\ exitCode = -1

(***************************************************************************)
(* The runs.                                                               *)
(***************************************************************************)
Init ==
    \/ InitGetBDFSConfig
    \/ InitExportImages
    \/ InitExportImage
    \/ InitDeleteImages
    \/ InitImportImagesFromSource
    \/ InitExportImagesToCloud
    \/ InitExportImageToCloud
    \/ InitImportImagesFromCloud
    \/ InitMain

Next ==
    \/ CallGetBDFSConfig
    \/ ExportImages
    \/ ExportImage
    \/ DeleteImages
    \/ DeleteImage
    \/ ImportImagesFromSource
    \/ importFromFile
    \/ ExportImagesToCloud
    \/ ExportImageToCloud
    \/ ImportImagesFromCloud
    \/ downloadAndImportFromCloud
    \/ CleanCache
    \/ main

Spec == Init /\ [][Next]_vars

(***************************************************************************)
(* Properties.                                                             *)
(***************************************************************************)
ImageFlows == {"ExportImages", "ExportImagesToCloud", "DeleteImages"}
ImportFlows == {"ImportImagesFromSource", "ImportImagesFromCloud"}
Flows == ImageFlows \cup ImportFlows

\* the user chose exactly the chosen options
Chose(chosen) == answer = Ptr(chosen)

\* C1: the file name ExportImage and ExportImageToCloud compute for a selected
\* image reference contains no '/'.
C1_NoSlashInFileName ==
    entry \in {"ExportImages", "ExportImagesToCloud"} =>
        \A i \in 1..Len(exported) :
            exported[i].imageName \in Range(candidates)
                => ~Contains(exported[i].tarFileName, "/")

\* the name and tag of an image reference: the text before its first ':' and
\* the text between its first and its second ':'
NamePart(ref) ==
    LET k == Index(ref, ":") IN IF k = 0 THEN ref ELSE SubSeq(ref, 1, k - 1)
TagPart(ref) ==
    LET k == Index(ref, ":")
        rest == SubSeq(ref, k + 1, Len(ref))
        m == Index(rest, ":")
    IN  IF k = 0 THEN "" ELSE IF m = 0 THEN rest ELSE SubSeq(rest, 1, m - 1)

OrDefault(s, default) == IF s = "" THEN default ELSE s

\* name with every '/' replaced by the middle dot: same length, a middle dot
\* wherever name has '/', and name's own character everywhere else
IsDotted(dotted, name) ==
    /\ Len(dotted) = Len(name)
    /\ \A i \in 1..Len(name) :
         SubSeq(dotted, i, i) = (IF SubSeq(name, i, i) = "/" THEN MiddleDot ELSE SubSeq(name, i, i))

\* the file name the naming rule gives e for the name and tag of its reference
\* and the Os and Architecture the inspection gave, if it gave any
FollowsNamingRule(e) ==
    LET suffix == "_" \o OrDefault(TagPart(e.imageName), "latest")
                      \o "_" \o OrDefault(IF e.inspect.err THEN "" ELSE e.inspect.Os, "unknown")
                      \o "_" \o OrDefault(IF e.inspect.err THEN "" ELSE e.inspect.Architecture,
                                          "unknown")
                      \o ".tar"
        f == e.tarFileName
    IN  /\ HasSuffix(f, suffix)
        /\ IsDotted(SubSeq(f, 1, Len(f) - Len(suffix)), NamePart(e.imageName))

\* C2: every export's file name is <name with '/' as middle dot>_<tag>_<os>_<arch>.tar
\* with "latest" for an empty tag and "unknown" for an empty or uninspected
\* os or architecture; the two examples of the rule come out as stated.
C2_FileNameFormat ==
    \A i \in 1..Len(exported) :
        LET e == exported[i]
        IN  /\ FollowsNamingRule(e)
            /\ (e.imageName = "nginx:latest" /\ e.inspect = Inspected("linux", "amd64"))
                  => e.tarFileName = "nginx_latest_linux_amd64.tar"
            /\ (e.imageName = "my/app" /\ (e.inspect.err \/ e.inspect = Inspected("", "")))
                  => e.tarFileName = "my" \o MiddleDot \o "app_latest_unknown_unknown.tar"

C2_Witness ==
    /\ entry = "ExportImageToCloud" /\ pc = "done"
    /\ Len(exported) = 1
    /\ exported[1].imageName = "my/app" /\ exported[1].inspect.err
    /\ exported[1].tarFileName = "my" \o MiddleDot \o "app_latest_unknown_unknown.tar"

\* the run got past the prompt and the checks that follow it
Looping == pc \in {"loop", "done"} \/ (pc = "exit" /\ Len(handed) > 0)

IsPrefix(s, t) == Len(s) <= Len(t) /\ s = SubSeq(t, 1, Len(s))

\* C3: in local export, cloud export, delete and cloud directory import, a
\* selection of exactly "All" hands the per-item operation the candidates, each
\* once, in their order.
C3_AllSelectsEveryCandidate ==
    (entry \in {"ExportImages", "ExportImagesToCloud", "DeleteImages", "ImportImagesFromCloud"}
       /\ Chose(<<All>>) /\ Looping)
    => /\ items = candidates
       /\ IsPrefix(handed, candidates)
       /\ pc = "done" => handed = candidates

C3_Witness ==
    /\ entry = "ImportImagesFromCloud" /\ Chose(<<All>>)
    /\ pc = "done" /\ Len(candidates) = 3 /\ handed = candidates

\* C4: in local directory import with two or more discovered files, a selection
\* of exactly "All" imports every discovered file once, in discovery order.
C4_AllImportsEveryFile ==
    (entry = "ImportImagesFromSource" /\ Len(candidates) >= 2 /\ Chose(<<All>>) /\ Looping)
    => /\ items = candidates
       /\ IsPrefix(handed, candidates)
       /\ pc = "done" => handed = candidates

\* C5: in every flow, whatever was selected, every name handed to a per-item
\* operation is a candidate, and "All" is never handed to one.
C5_OnlyCandidatesHanded ==
    entry \in Flows =>
        \A i \in 1..Len(handed) : handed[i] \in Range(candidates) /\ handed[i] # All

\* the per-item operations
ItemOps == {"inspect", "save", "create", "upload", "remove", "download", "load", "removeFile"}

\* C6: in every flow an empty selection ends the run with an "[x]" message and
\* exit code 1, before any per-item operation and before any directory is made.
C6_EmptySelectionFails ==
    (entry \in Flows /\ Chose(<<>>))
    => /\ pc = "exit" /\ exitCode = 1
       /\ Len(failed) = 1
       /\ handed = <<>> /\ items = <<>>
       /\ \A i \in 1..Len(ops) : ops[i].op \notin ItemOps
       /\ dirs = {} /\ files = {}

C6_Witness ==
    /\ entry = "ExportImages" /\ Chose(<<>>)
    /\ Len(candidates) = 2 /\ exitCode = 1
    /\ failed = << "No images selected" >>

\* the name a candidate is shown under: the image reference, or the file's
\* last path element
Shown(c) == IF entry \in ImportFlows THEN SubSeq(c, LastIndex(c, "/") + 1, Len(c)) ELSE c

\* C7: in every flow the prompt's options are the candidates in listing order,
\* preceded by "All" exactly when there is more than one candidate.
C7_OptionsOffered ==
    (entry \in Flows /\ (selections # <<>> \/ answer # Nil))
    => /\ Len(candidates) >= 1
       /\ Len(selections) = Len(candidates) + (IF Len(candidates) > 1 THEN 1 ELSE 0)
       /\ Len(candidates) > 1 => selections[1] = All
       /\ \A i \in 1..Len(candidates) :
            /\ Shown(candidates[i]) # All
            /\ selections[Len(selections) - Len(candidates) + i] = Shown(candidates[i])

C7_Witness ==
    /\ entry = "ImportImagesFromSource"
    /\ Len(candidates) = 1
    /\ selections = << "x.tar.gz" >>

\* the three required variables are all set
EnvComplete ==
    environ.BDFS_CLIENT_ID # "" /\ environ.BDFS_CLIENT_SECRET # "" /\ environ.BDFS_TOKEN_PATH # ""

Returned == result # Nil
ReturnedConfig == result[1].config[1]

\* C8: with the three required variables set, GetBDFSConfig returns their values
\* and reads no file, whatever BDFS_CONFIG_FILE and the files are.
C8_EnvironmentWins ==
    (Returned /\ EnvComplete)
    => /\ result[1].err = "" /\ result[1].config # Nil
       /\ ReturnedConfig.ClientID = environ.BDFS_CLIENT_ID
       /\ ReturnedConfig.ClientSecret = environ.BDFS_CLIENT_SECRET
       /\ ReturnedConfig.TokenPath = environ.BDFS_TOKEN_PATH
       /\ result[1].reads = <<>>

C8_Witness ==
    /\ entry = "GetBDFSConfig" /\ Returned /\ EnvComplete
    /\ environ.BDFS_CONFIG_FILE = CustomConfigPath
    /\ fs[CustomConfigPath].readable /\ fs[CustomConfigPath].wellformed
    /\ fs[CustomConfigPath].table.client_id = "fid"
    /\ ~fs["/home/u/.local/app/dkci/config.toml"].readable
    /\ ReturnedConfig.ClientID = "eid"

\* the path of the settings file when the environment is not complete
SettingsPath ==
    IF environ.BDFS_CONFIG_FILE # "" THEN environ.BDFS_CONFIG_FILE
    ELSE "/home/u/.local/app/dkci/config.toml"

\* the run took the settings file branch
FileLevel == ~EnvComplete /\ (environ.BDFS_CONFIG_FILE # "" \/ environ.HOME # "")

\* the default directory the chosen level gives
LevelDefaultDir ==
    IF EnvComplete THEN environ.BDFS_DEFAULT_CLOUD_DIR
    ELSE fs[SettingsPath].table.default_cloud_dir

\* C9: a record returned without error has a non-empty client id, client secret,
\* token path and default directory, the latter "/" when the level gives none.
C9_ReturnedRecordUsable ==
    (Returned /\ result[1].err = "")
    => /\ result[1].config # Nil
       /\ ReturnedConfig.ClientID # ""
       /\ ReturnedConfig.ClientSecret # ""
       /\ ReturnedConfig.TokenPath # ""
       /\ ReturnedConfig.DefaultCloudDir # ""
       /\ LevelDefaultDir = "" => ReturnedConfig.DefaultCloudDir = "/"

C9_Witness ==
    /\ entry = "GetBDFSConfig" /\ Returned /\ FileLevel
    /\ environ.BDFS_DEFAULT_CLOUD_DIR = "/edir"
    /\ fs[SettingsPath].table.default_cloud_dir = ""
    /\ result[1].err = ""
    /\ ReturnedConfig.DefaultCloudDir = "/"

\* C10: on the settings file branch an unreadable file, else an unparsable
\* file, else an empty required field each give their own error and no record.
C10_FileErrors ==
    (Returned /\ FileLevel)
    => LET file == fs[SettingsPath]
           incomplete == \/ file.table.client_id = ""
                         \/ file.table.client_secret = ""
                         \/ file.table.token_path = ""
       IN  /\ ~file.readable => result[1].err = "read"
           /\ (file.readable /\ ~file.wellformed) => result[1].err = "parse"
           /\ (file.readable /\ file.wellformed /\ incomplete) => result[1].err = "missing"
           /\ (file.readable /\ file.wellformed /\ ~incomplete) => result[1].err = ""
           /\ result[1].err # "" <=> result[1].config = Nil
           /\ Cardinality({"read", "parse", "missing"}) = 3

C10_Witness ==
    /\ entry = "GetBDFSConfig" /\ Returned /\ FileLevel
    /\ ~fs[SettingsPath].readable /\ ~fs[SettingsPath].wellformed
    /\ fs[SettingsPath].table.client_id = ""
    /\ result[1].err = "read" /\ result[1].config = Nil

\* the values the process environment gives the four settings variables
EnvValues ==
    { environ.BDFS_CLIENT_ID, environ.BDFS_CLIENT_SECRET, environ.BDFS_TOKEN_PATH,
      environ.BDFS_DEFAULT_CLOUD_DIR } \ {""}

\* C11: when one of the three required variables is empty, the only file read
\* is the one BDFS_CONFIG_FILE names, or the home file when it names none, an
\* error of that file is returned as it is, and every field of a returned
\* record is the file's (or "/" for no default directory), none a variable's.
C11_NoMergingOfLevels ==
    (Returned /\ ~EnvComplete)
    => /\ FileLevel => result[1].reads = << SettingsPath >>
       /\ ~FileLevel => result[1].reads = <<>> /\ result[1].config = Nil
       /\ (FileLevel /\ ~fs[SettingsPath].readable) => result[1].config = Nil
       /\ result[1].config # Nil
            => /\ ReturnedConfig.ClientID = fs[SettingsPath].table.client_id
               /\ ReturnedConfig.ClientSecret = fs[SettingsPath].table.client_secret
               /\ ReturnedConfig.TokenPath = fs[SettingsPath].table.token_path
               /\ ReturnedConfig.DefaultCloudDir
                     = OrDefault(fs[SettingsPath].table.default_cloud_dir, "/")
               /\ { ReturnedConfig.ClientID, ReturnedConfig.ClientSecret,
                    ReturnedConfig.TokenPath, ReturnedConfig.DefaultCloudDir }
                     \cap EnvValues = {}

C11_Witness ==
    /\ entry = "GetBDFSConfig" /\ Returned
    /\ environ.BDFS_CLIENT_ID = "eid" /\ environ.BDFS_CLIENT_SECRET = ""
    /\ environ.BDFS_TOKEN_PATH = "/etok" /\ environ.BDFS_DEFAULT_CLOUD_DIR = "/edir"
    /\ environ.BDFS_CONFIG_FILE = CustomConfigPath
    /\ fs[CustomConfigPath] = [GoodFile EXCEPT !.table.default_cloud_dir = ""]
    /\ ~fs["/home/u/.local/app/dkci/config.toml"].readable
    /\ result[1].reads = << CustomConfigPath >>
    /\ ReturnedConfig.ClientID = "fid" /\ ReturnedConfig.DefaultCloudDir = "/"

\* pattern occurs in text, letter for letter
IsLiteralSubstring(pattern, text) ==
    \E i \in 1..(Len(text) - Len(pattern) + 1) :
        \A k \in 1..Len(pattern) : SubSeq(text, i + k - 1, i + k - 1) = SubSeq(pattern, k, k)

\* contract B: an empty pattern matches everything
Matches(text, pattern) == pattern = "" \/ IsLiteralSubstring(pattern, text)

\* the letters a and b are the same letter, b being in lower case
SameLetter(a, b) ==
    \/ a = b
    \/ \E k \in 1..Len(Lower) : b = SubSeq(Lower, k, k) /\ a = SubSeq(Upper, k, k)

\* name ends in suffix, whatever the case of its letters
EndsIn(name, suffix) ==
    /\ Len(name) >= Len(suffix)
    /\ \A k \in 1..Len(suffix) :
         SameLetter(SubSeq(name, Len(name) - Len(suffix) + k, Len(name) - Len(suffix) + k),
                    SubSeq(suffix, k, k))

\* the path names an archive: it ends in ".tar", ".tar.gz" or ".tgz"
IsArchive(path) == \E suffix \in {".tar", ".tar.gz", ".tgz"} : EndsIn(path, suffix)

\* the last element of a path
LastElement(path) == SubSeq(path, LastIndex(path, "/") + 1, Len(path))

\* the last element of a path up to its last dot
Stem(path) ==
    LET k == LastIndex(LastElement(path), ".")
    IN  IF k = 0 THEN LastElement(path) ELSE SubSeq(LastElement(path), 1, k - 1)

\* the repo tags of the daemon's images, in listing order
RECURSIVE AllRepoTags(_)
AllRepoTags(imgs) ==
    IF Len(imgs) = 0 THEN <<>> ELSE Head(imgs).RepoTags \o AllRepoTags(Tail(imgs))

\* the pattern a flow filters with
UsedPattern ==
    IF entry \in {"ExportImages", "ExportImagesToCloud"} THEN environ.DKCI_GREP_PATTERN
    ELSE grepPattern

\* the flow listed the daemon's images, or the directory, and built its candidates
ImagesListed ==
    \/ selections # <<>>
    \/ Len(failed) = 1 /\ failed[1] \in {"No Docker images found", "No tagged Docker images found"}
DirectoryListed ==
    \/ selections # <<>>
    \/ Len(failed) = 1 /\ failed[1] \in {"No .tar files found in the specified directory",
                                         "No .tar files found in the specified cloud directory"}

\* the eligible entries that match the pattern, in listing order
MatchingTags ==
    LET Test(tag) == tag # NoneTag /\ Matches(tag, UsedPattern)
    IN  SelectSeq(AllRepoTags(images), Test)
MatchingFiles ==
    LET Test(e) == ~e.IsDir /\ IsArchive(e.Path) /\ Matches(Stem(e.Path), UsedPattern)
        kept == SelectSeq(entries, Test)
    IN  [i \in 1..Len(kept) |-> kept[i].Path]

\* C12: in every listing flow the candidates are the eligible entries, in
\* listing order, all of them for an empty pattern and otherwise exactly those
\* whose matched text (the repo tag, or the file's base name without its
\* extension) holds the pattern as a case-sensitive literal substring.
C12_PatternFiltersCandidates ==
    /\ (entry \in ImageFlows /\ ImagesListed) => candidates = MatchingTags
    /\ (entry \in ImportFlows /\ DirectoryListed) => candidates = MatchingFiles

C12_Witness ==
    /\ entry = "ImportImagesFromSource" /\ DirectoryListed
    /\ grepPattern = "B"
    /\ Len(entries) = 3 /\ entries[1].Path = "/d/B.TAR"
    /\ entries[2].Path = "/d/a.tar" /\ entries[3].Path = "/d/x.tar.gz"
    /\ candidates = << "/d/B.TAR" >>

\* the run is a run of the program with this subcommand
Subcommand(name) == Len(osArgs) >= 2 /\ osArgs[2] = name

\* the value the command line gives -g, "" when it has no -g
GrepValue ==
    IF \E i \in 3..(Len(osArgs) - 1) : osArgs[i] = "-g"
    THEN osArgs[(CHOOSE i \in 3..(Len(osArgs) - 1) : osArgs[i] = "-g") + 1]
    ELSE ""

\* C13: an export run (local or cloud) builds the candidate list the delete
\* command builds for the same image list and the same -g value, whatever the
\* process environment held when the run began.
C13_ExportFiltersLikeDelete ==
    ((Subcommand("export") \/ Subcommand("delete")) /\ entry \in ImageFlows /\ ImagesListed)
    => candidates = ImageNames(images, GrepValue)

\* the files of the listing whose name ends in an archive extension, in
\* listing order
ArchiveFiles ==
    LET Test(e) == ~e.IsDir /\ IsArchive(LastElement(e.Path))
        kept == SelectSeq(entries, Test)
    IN  [i \in 1..Len(kept) |-> kept[i].Path]

Stripped(path) ==
    LET name == LastElement(path)
    IN  IF EndsIn(name, ".tar.gz") THEN SubSeq(name, 1, Len(name) - 7)
        ELSE IF EndsIn(name, ".tar") \/ EndsIn(name, ".tgz") THEN SubSeq(name, 1, Len(name) - 4)
        ELSE name

\* C15: with a pattern, a file with an archive extension is a candidate exactly
\* when the pattern occurs in its base name without the whole archive
\* extension, so that "tar" does not make "x.tar.gz" a candidate.
C15_WholeExtensionStripped ==
    (entry \in ImportFlows /\ DirectoryListed /\ UsedPattern # "")
    => \A i \in 1..Len(ArchiveFiles) :
          ArchiveFiles[i] \in Range(candidates)
             <=> IsLiteralSubstring(UsedPattern, Stripped(ArchiveFiles[i]))

\* the first operation of each per-item call of an image flow, in call order
Attempts ==
    LET Test(o) == o.op = (IF entry = "DeleteImages" THEN "remove" ELSE "inspect")
        firsts == SelectSeq(ops, Test)
    IN  [i \in 1..Len(firsts) |-> firsts[i].arg]

\* C16: in local export, cloud export and delete a failure of one image's
\* operation is reported under that image and does not end the loop: the
\* operation is attempted for every selected image, in selection order.
C16_FailuresDoNotStopTheLoop ==
    (entry \in ImageFlows /\ Looping)
    => /\ pc \in {"loop", "done"}
       /\ handed = SubSeq(items, 1, idx - 1)
       /\ Attempts = handed
       /\ pc = "done" <=> idx = Len(items) + 1
       /\ failed \in SubSeqs(handed)

C16_Witness ==
    /\ entry = "ExportImagesToCloud" /\ pc = "done"
    /\ Len(items) = 2 /\ handed = items
    /\ failed = << items[1] >>
    /\ \E i \in 1..Len(ops) : ops[i] = Op("upload", PathJoin(target, exported[2].tarFileName))

\* the run is a run of the program that has ended
Ended == osArgs # <<>> /\ pc \in {"done", "exit"}

\* C17: a run of the program that printed an "[x] " message ends with exit
\* code 1.
C17_FailureMeansExitOne ==
    (Ended /\ failed # <<>>) => exitCode = 1

\* the command line holds the flag, by its letter or by its name
GivesFlag(letter, name) ==
    \E i \in 3..Len(osArgs) :
        \/ osArgs[i] = "-" \o letter
        \/ osArgs[i] = "--" \o name
        \/ IsPrefix("--" \o name \o "=", osArgs[i])

\* main has dispatched the subcommand, or has ended the run
Dispatched == osArgs # <<>> /\ pc # "main"

\* the daemon, the cloud and the file system were not touched
NothingDone ==
    /\ ops = <<>> /\ dirs = {} /\ files = {}
    /\ candidates = <<>> /\ selections = <<>> /\ handed = <<>>

\* C18: an export run whose command line holds both -d/--destination and
\* -c/--cloud, and an import run whose command line holds both -s/--source and
\* -c/--cloud, is rejected with one "[x]" message and exit code 1 before
\* anything is listed, exported or imported.
C18_FlagsMutuallyExclusive ==
    (Dispatched /\ \/ (Subcommand("export") /\ GivesFlag("d", "destination")
                                             /\ GivesFlag("c", "cloud"))
                   \/ (Subcommand("import") /\ GivesFlag("s", "source")
                                             /\ GivesFlag("c", "cloud")))
    => /\ pc = "exit" /\ exitCode = 1
       /\ Len(failed) = 1
       /\ NothingDone

\* the value the command line gives -d
DestinationValue ==
    osArgs[(CHOOSE i \in 3..(Len(osArgs) - 1) : osArgs[i] = "-d") + 1]

\* C19: an export run with -d/--destination and no -c/--cloud is a local
\* export to the given directory, with no cloud authorization and no upload,
\* whatever the BDFS_* variables are.
C19_DestinationMeansLocalExport ==
    (Dispatched /\ Subcommand("export") /\ GivesFlag("d", "destination")
                /\ ~GivesFlag("c", "cloud"))
    => /\ entry = "ExportImages"
       /\ target = DestinationValue
       /\ \A i \in 1..Len(ops) : ops[i].op \notin {"authorize", "upload"}

\* the operations of the per-item calls
TransferOps ==
    LET Test(o) == o.op \notin {"authorize", "list", "info"}
    IN  SelectSeq(ops, Test)

\* a sequence of operations cut before each operation named first
RECURSIVE Group(_, _, _)
Group(seq, first, blocks) ==
    IF Len(seq) = 0 THEN blocks
    ELSE IF Head(seq).op = first \/ Len(blocks) = 0
    THEN Group(Tail(seq), first, Append(blocks, << Head(seq) >>))
    ELSE Group(Tail(seq), first,
               [blocks EXCEPT ![Len(blocks)] = Append(blocks[Len(blocks)], Head(seq))])

\* the operations of the k-th item of a cloud export when nothing fails, and
\* of the k-th item of a cloud import
UploadOf(k) ==
    LET tempFilePath == PathJoin(CacheDir, exported[k].tarFileName)
    IN  << Op("inspect", handed[k]), Op("save", handed[k]), Op("create", tempFilePath),
           Op("upload", PathJoin(target, exported[k].tarFileName)),
           Op("removeFile", tempFilePath) >>
DownloadOf(k) ==
    LET localFilePath == PathJoin(CacheDir, LastElement(handed[k]))
    IN  << Op("download", handed[k]), Op("create", localFilePath),
           Op("load", localFilePath), Op("removeFile", localFilePath) >>

\* block is the item's operations up to some point, or all of them followed
\* by the warning that the temporary file could not be removed
IsRunOf(block, whole) ==
    \/ Len(block) >= 1 /\ IsPrefix(block, whole)
    \/ block = Append(whole, Op("warn", whole[Len(whole)].arg))

\* C20: in cloud export and cloud import the items are handled one after
\* another in selection order, each one's temporary file under /tmp/go-dkci
\* written, then uploaded or loaded, then removed before the next item begins,
\* and no temporary file of an item whose calls all succeeded remains (a later
\* item exported to the same file name makes that file anew: the file is then
\* the later item's).
C20_OneItemAtATime ==
    /\ entry \in {"ExportImagesToCloud", "ExportImageToCloud"}
         => LET blocks == Group(TransferOps, "inspect", <<>>)
            IN  /\ Len(blocks) = Len(handed)
                /\ handed = SubSeq(items, 1, Len(handed))
                /\ \A k \in 1..Len(blocks) :
                     /\ IsRunOf(blocks[k], UploadOf(k))
                     /\ IsPrefix(CacheDir \o "/", UploadOf(k)[3].arg)
                     /\ (/\ blocks[k] = UploadOf(k) /\ handed[k] \notin Range(failed)
                         /\ \A m \in (k + 1)..Len(blocks) :
                               UploadOf(m)[3].arg # UploadOf(k)[3].arg)
                           => UploadOf(k)[3].arg \notin files
    /\ entry = "ImportImagesFromCloud"
         => LET blocks == Group(TransferOps, "download", <<>>)
            IN  /\ Len(blocks) \in {Len(handed), Len(handed) - 1}
                /\ handed = SubSeq(items, 1, Len(handed))
                /\ \A k \in 1..Len(blocks) :
                     /\ IsRunOf(blocks[k], DownloadOf(k))
                     /\ IsPrefix(CacheDir \o "/", DownloadOf(k)[2].arg)
                     /\ k < Len(blocks) => Len(blocks[k]) >= Len(DownloadOf(k))
                     /\ blocks[k] = DownloadOf(k) => DownloadOf(k)[2].arg \notin files

C20_Witness ==
    /\ entry = "ExportImagesToCloud" /\ pc = "done"
    /\ Len(handed) = 2 /\ failed = <<>>
    /\ TransferOps = UploadOf(1) \o UploadOf(2)
    /\ files = {}

\* the downloads and the loads made so far, in order
Downloads ==
    LET Test(o) == o.op = "download"
    IN  SelectSeq(ops, Test)
Loads ==
    LET Test(o) == o.op = "load"
    IN  SelectSeq(ops, Test)

\* the file the k-th per-item call of an import flow gives the daemon
LoadedFile(k) ==
    IF entry = "ImportImagesFromCloud" THEN PathJoin(CacheDir, LastElement(handed[k]))
    ELSE handed[k]

\* C21: in local import and cloud import a failure of one selected file's
\* download or load is reported under that file and ends the run at once with
\* exit code 1: the file is downloaded and loaded at most once and no later
\* selected file is downloaded or loaded.
C21_ImportStopsAtFirstFailure ==
    (entry \in ImportFlows /\ Looping)
    => /\ handed = SubSeq(items, 1, Len(handed))
       /\ IF failed = <<>>
          THEN /\ pc \in {"loop", "done"}
               /\ Len(handed) = idx - 1
               /\ Len(Loads) = Len(handed)
          ELSE /\ failed = << handed[Len(handed)] >>
               /\ pc = "exit" /\ exitCode = 1
               /\ Len(handed) = idx
               /\ Len(Loads) \in {Len(handed) - 1, Len(handed)}
       /\ \A k \in 1..Len(Loads) : Loads[k].arg = LoadedFile(k)
       /\ entry = "ImportImagesFromCloud"
            => /\ Len(Downloads) \in {Len(handed) - 1, Len(handed)}
               /\ Len(Downloads) >= Len(Loads)
               /\ \A k \in 1..Len(Downloads) : Downloads[k].arg = handed[k]

C21_Witness ==
    /\ entry = "ImportImagesFromCloud" /\ pc = "exit" /\ exitCode = 1
    /\ Len(items) = 2 /\ items[1] # items[2]
    /\ handed = << items[1] >> /\ failed = << items[1] >>
    /\ Downloads = << Op("download", items[1]) >>
    /\ Loads = << Op("load", LoadedFile(1)) >>

\* the run is a local directory import of two or more discovered files in
\* which the user chose exactly "All"
AllOfDirectory ==
    /\ entry = "ImportImagesFromSource" /\ Len(candidates) >= 2
    /\ Chose(<<All>>) /\ Looping

\* C22 as stated: in local directory import with two or more discovered files,
\* a selection of exactly "All" lacks exactly the first discovered file and
\* contains every other one.
C22_AllLacksExactlyTheFirst ==
    AllOfDirectory
    => /\ candidates[1] \notin Range(items)
       /\ \A k \in 2..Len(candidates) : candidates[k] \in Range(items)

\* C22: in local directory import with two or more discovered files, a
\* selection of exactly "All" is the selection of the base name of the last
\* discovered file alone: one file is imported, the first discovered file
\* that has that base name, and no other.
C22_AllKeepsOnlyTheLast ==
    AllOfDirectory
    => /\ Len(items) = 1
       /\ LastElement(items[1]) = LastElement(candidates[Len(candidates)])
       /\ \E k \in 1..Len(candidates) :
             /\ items[1] = candidates[k]
             /\ \A j \in 1..(k - 1) : LastElement(candidates[j]) # LastElement(items[1])
       /\ IsPrefix(handed, items)

C22_Witness ==
    /\ AllOfDirectory /\ pc = "done"
    /\ Len(candidates) = 3
    /\ items = << candidates[3] >> /\ handed = items

\* the entries of the cache directory before the run, by path, and the calls
\* of os.RemoveAll made so far
Listed == [i \in 1..Len(entries) |-> entries[i].Path]
Removals ==
    LET Test(o) == o.op = "removeAll"
    IN  SelectSeq(ops, Test)

\* the first word of the line is "yes"
FirstWordIsYes(line) ==
    \E i \in 0..Len(line) :
        /\ \A j \in 1..i : SubSeq(line, j, j) = " "
        /\ Len(line) >= i + 3
        /\ SubSeq(line, i + 1, i + 3) = "yes"
        /\ Len(line) > i + 3 => SubSeq(line, i + 4, i + 4) = " "

\* the user was asked and answered "yes"
Confirmed == answer # Nil /\ FirstWordIsYes(answer[1][1])

C24_DistinctReferencesDistinctFiles ==
    entry \in {"ExportImages", "ExportImagesToCloud"} =>
        \A i, j \in 1..Len(exported) :
            (/\ exported[i].imageName # exported[j].imageName
             /\ OsInfo(exported[i].inspect) = OsInfo(exported[j].inspect)
             /\ ArchInfo(exported[i].inspect) = ArchInfo(exported[j].inspect))
            => exported[i].tarFileName # exported[j].tarFileName

\* the display names of the candidates at the positions ticked
DisplayNames(ticked) ==
    LET paths == Pick(candidates, ticked, 1)
    IN  [k \in 1..Len(paths) |-> LastElement(paths[k])]

\* C25: in local directory import and cloud directory import, when the user
\* ticks candidates and the imports all succeed, the paths imported are the
\* paths of the ticked candidates, each once, also when two candidates have
\* the same base name.
C25_SelectedPathsImported ==
    (entry \in ImportFlows /\ pc = "done" /\ answer # Nil /\ All \notin Range(answer[1]))
    => \E ticked \in SUBSET (1..Len(candidates)) :
          /\ DisplayNames(ticked) = answer[1]
          /\ handed = Pick(candidates, ticked, 1)

\* os.Remove was called on the path
RemoveCalled(path) == \E i \in 1..Len(ops) : ops[i] = Op("removeFile", path)

\* C26: once a cloud export of an image has returned, and once a cloud import
\* run has ended, whatever the outcome, no temporary file made for an item
\* under /tmp/go-dkci exists any more, unless os.Remove was called on it and
\* could not delete it.
C26_NoTemporaryFileLeft ==
    (entry \in {"ExportImagesToCloud", "ExportImageToCloud", "ImportImagesFromCloud"}
       /\ pc \in {"loop", "done", "exit"})
    => \A path \in files : RemoveCalled(path)

====
